---- MODULE Spec2Model ----
(***************************************************************************)
(* Mesh area-conservation force computes of HOOMD-blue                      *)
(* (AreaConservationMeshForceCompute, its per-triangle sibling              *)
(* TriangleAreaConservationMeshForceCompute).                               *)
(*                                                                          *)
(* Scalars are modelled as exact rationals <<n, d>> in lowest terms with    *)
(* d > 0, extended with the IEEE-754 special values the C++ code can        *)
(* produce: +inf = <<1, 0>>, -inf = <<-1, 0>>, NaN = <<0, 0>>.  Particle    *)
(* positions are drawn from a lattice on which every square root the code   *)
(* takes is the root of a perfect square, so sqrt is exact.                 *)
(***************************************************************************)
EXTENDS Integers, Sequences, FiniteSets, TLC

(***************************************************************************)
(* Scalar arithmetic                                                        *)
(***************************************************************************)
Abs(n) == IF n < 0 THEN -n ELSE n

Sign(n) == IF n < 0 THEN -1 ELSE IF n > 0 THEN 1 ELSE 0

RECURSIVE GCD(_, _)
GCD(a, b) == IF b = 0 THEN a ELSE GCD(b, a % b)

\* the Scalar n/d in lowest terms; d = 0 gives +inf, -inf or NaN by the sign of n
Norm(n, d) ==
    IF d = 0 THEN <<Sign(n), 0>>
    ELSE IF n = 0 THEN <<0, 1>>
    ELSE LET g == GCD(Abs(n), Abs(d))
             s == Sign(d)
         IN  <<(s * n) \div g, (s * d) \div g>>

R(n) == <<n, 1>>

Zero == <<0, 1>>

Half == <<1, 2>>

NaN == <<0, 0>>

IsFinite(a) == a[2] # 0

IsNaN(a) == a = NaN

Neg(a) == <<-a[1], a[2]>>

Add(a, b) ==
    IF a[2] = 1 /\ b[2] = 1 THEN <<a[1] + b[1], 1>>
    ELSE IF a[2] = 0 /\ b[2] = 0
    THEN IF a = b THEN a ELSE NaN
    ELSE IF a[2] = b[2] THEN Norm(a[1] + b[1], a[2])
    ELSE Norm(a[1] * b[2] + b[1] * a[2], a[2] * b[2])

Sub(a, b) == Add(a, Neg(b))

Mul(a, b) ==
    IF a[2] = 1 /\ b[2] = 1 THEN <<a[1] * b[1], 1>>
    ELSE IF (a = <<0, 1>> /\ b[2] # 0) \/ (b = <<0, 1>> /\ a[2] # 0) THEN <<0, 1>>
    ELSE Norm(a[1] * b[1], a[2] * b[2])

\* 1.0 / a  (1/0 = inf, 1/inf = 0, 1/NaN = NaN)
Inv(a) == IF a[1] < 0 THEN <<-a[2], -a[1]>> ELSE <<a[2], a[1]>>

Div(a, b) == Mul(a, Inv(b))

\* a < b ; every comparison with NaN is false
Lt(a, b) ==
    IF IsNaN(a) \/ IsNaN(b) THEN FALSE
    ELSE IF a[2] = 0 /\ b[2] = 0 THEN a[1] < b[1]
    ELSE a[1] * b[2] < b[1] * a[2]

Gt(a, b) == Lt(b, a)

\* a <= b
Le(a, b) == ~IsNaN(a) /\ ~IsNaN(b) /\ ~Lt(b, a)

RECURSIVE ISqrtIn(_, _, _)
ISqrtIn(n, lo, hi) ==
    IF lo >= hi THEN lo
    ELSE LET mid == (lo + hi + 1) \div 2
         IN  IF mid * mid <= n THEN ISqrtIn(n, mid, hi) ELSE ISqrtIn(n, lo, mid - 1)

\* floor of the square root of a natural number
ISqrt(n) == ISqrtIn(n, 0, IF n < 46340 THEN n ELSE 46340)

IsSquare(a) == IsFinite(a) /\ a[1] >= 0 /\ ISqrt(a[1]) * ISqrt(a[1]) = a[1]
               /\ ISqrt(a[2]) * ISqrt(a[2]) = a[2]

\* sqrt(a): NaN for NaN and for negatives, inf for +inf, exact on perfect squares
Sqrt(a) ==
    IF a[1] < 0 \/ IsNaN(a) THEN NaN
    ELSE IF a[2] = 0 THEN a
    ELSE <<ISqrt(a[1]), ISqrt(a[2])>>

(***************************************************************************)
(* Scalar3 arithmetic (hoomd/HOOMDMath.h operators used by the computes)    *)
(***************************************************************************)
V3(x, y, z) == <<R(x), R(y), R(z)>>

VAdd(u, v) == <<Add(u[1], v[1]), Add(u[2], v[2]), Add(u[3], v[3])>>

VSub(u, v) == <<Sub(u[1], v[1]), Sub(u[2], v[2]), Sub(u[3], v[3])>>

VNeg(u) == <<Neg(u[1]), Neg(u[2]), Neg(u[3])>>

VScale(s, u) == <<Mul(s, u[1]), Mul(s, u[2]), Mul(s, u[3])>>

\* Scalar3 / Scalar multiplies by the reciprocal
VDiv(u, s) == VScale(Inv(s), u)

Dot(u, v) == Add(Add(Mul(u[1], v[1]), Mul(u[2], v[2])), Mul(u[3], v[3]))

(***************************************************************************)
(* The simulated system: box, particles, mesh, domain decomposition        *)
(***************************************************************************)
\* largest number of triangles of a mesh (meshes are prefixes of TriList)
MaxTri == 2

\* largest number of ranks of a domain decomposition
MaxRanks == 2

Tags == 0 .. 3

\* edge lengths of the periodic box; lo = -L/2, hi = L/2
BoxL == <<32, 32, 32>>

\* the positions each tagged particle can take (index tag + 1), all inside
\* the box.  They are the periodic images of O, O+(3,4,0) or O+(6,8,0),
\* O+(-3,-4,12) and O+(3,4,12) with O = (14,0,0): the mesh straddles the
\* periodic boundary in x, and every edge taken from a triangle's first
\* vertex has integer length.
PosChoices ==
    << << <<14, 0, 0>> >>,
       << <<-15, 4, 0>>, <<-12, 8, 0>> >>,
       << <<11, -4, 12>> >>,
       << <<-15, 4, 12>> >> >>

\* the triangles a mesh is built from: three particle tags and a type id
TriList ==
    << [tag |-> <<0, 1, 2>>, type |-> 0],
       [tag |-> <<3, 1, 2>>, type |-> 1],
       [tag |-> <<0, 3, 1>>, type |-> 0],
       [tag |-> <<3, 2, 0>>, type |-> 1] >>

MeshTypeNames == <<"mesh", "patch">>

\* the (K, A0) pairs setParams is called with
ParamVals == << <<R(2), R(30)>>, <<R(3), R(90)>> >>

VARIABLES
    variant,        \* "mesh": AreaConservationMeshForceCompute, "triangle": TriangleArea...,
                    \* "gpu": AreaConservationMeshForceComputeGPU
    m_ignore_type,  \* collapse every triangle to type 0 (whole-mesh variant only)
    nranks,         \* number of ranks; 1 = no domain decomposition
    triangles,      \* the global mesh, a sequence of triangles
    m_pdata,        \* rank -> [N, NGhosts, rtag: tag -> local index, tag: local index + 1 -> tag]
    m_mesh_data,    \* rank -> the sequence of triangles held by the rank
    pos,            \* tag -> current position
    compute_virial, \* pdata_flag::pressure_tensor
    m_K, m_A0,      \* per-type parameters (identical on every rank)
    m_area,         \* per-type aggregate area (identical on every rank after the reduction)
    m_area_overrun, \* indices past the end of m_area that were written
    m_force,        \* rank -> local index -> <<x, y, z, w>>
    m_virial,       \* rank -> flat array of 6 * pitch Scalars
    error_checking, \* ExecutionConfiguration::isCUDAErrorCheckingEnabled
    m_params,       \* device table: type -> <<K, A0>> (GPU class only)
    m_flags,        \* the one-word error flag array (GPU class only)
    m_tuner,        \* "idle", or "begun" between Autotuner::begin and end
    last_call,      \* "computeForces", "setParams" or "getParams" if that was the
                    \* last call and it returned, "throw" if it raised an exception,
                    \* "abort" if it ended the process, else "other"
    returned,       \* what the last getParams call returned, <<>> before the first
    ndebug,         \* the build defines NDEBUG: assert() expands to nothing
    h_pos_oob,      \* what a read of h_pos.data past the end of the array gives:
                    \* [segv |-> the read faults, p |-> the foreign value read]
    m_K_overrun,    \* indices past the end of m_K and m_A0 that were written
    warnings,       \* what the last setParams call logged as warnings: "K" for
                    \* "specified K <= 0", "A0" for "specified A0 <= 0"
    python_tuner,   \* a PythonTuner: [m_tuner, m_flags, ...], <<>> if there is none
    mpcd            \* a CosineChannelFiller and the MPCD particle data it fills:
                    \* [N, N_virtual, m_N_fill, m_first_tag, h_pos, h_vel, h_tag, ...],
                    \* <<>> if there is none

vars == <<variant, m_ignore_type, nranks, triangles, m_pdata, m_mesh_data, pos,
          compute_virial, m_K, m_A0, m_area, m_area_overrun, m_force, m_virial,
          error_checking, m_params, m_flags, m_tuner, last_call, returned, ndebug,
          h_pos_oob, m_K_overrun, warnings, python_tuner, mpcd>>

\* what the calls on the compute leave alone
build == <<ndebug, h_pos_oob>>

\* the objects that are no force compute; no call on a compute touches them
elsewhere == <<python_tuner, mpcd>>

NoTuner == <<>>

NoFiller == <<>>

config == <<variant, m_ignore_type, nranks, triangles, m_mesh_data, build, elsewhere, returned,
            m_K_overrun, warnings>>

system == <<config, m_pdata, error_checking>>

gpu == <<m_params, m_flags, m_tuner>>

Ranks == 0 .. nranks - 1

\* MeshTriangleData::getNTypes
getNTypes == Len(MeshTypeNames)

\* BoxDim::minImage of an orthorhombic periodic box, one component
MinImage1(x, L) ==
    IF Le(Mul(Half, R(L)), x) THEN Sub(x, R(L))
    ELSE IF Lt(x, Neg(Mul(Half, R(L)))) THEN Add(x, R(L))
    ELSE x

minImage(v) == <<MinImage1(v[1], BoxL[1]), MinImage1(v[2], BoxL[2]), MinImage1(v[3], BoxL[3])>>

\* ParticleData::getDomainDecomposition
getDomainDecomposition == nranks > 1

\* ParticleData::getN, getNGhosts
getN(r) == m_pdata[r].N

getNGhosts(r) == m_pdata[r].NGhosts

LocalIdx(r) == 0 .. getN(r) + getNGhosts(r) - 1

\* ParticleData::getRTags: tag -> local index
h_rtag(r, t) == m_pdata[r].rtag[t]

\* ParticleData::getPositions; an index past the end of the array reads
\* foreign memory
h_pos(r, idx) ==
    LET p == IF idx \in LocalIdx(r) THEN pos[m_pdata[r].tag[idx + 1]] ELSE h_pos_oob.p
    IN  V3(p[1], p[2], p[3])

\* MeshTriangleData::getMembersArray and getTypeByIndex of rank r
LocalTriangles(r) == m_mesh_data[r]

\* MeshDefinition::getSize: number of triangles of the whole mesh
getSize == Len(triangles)

\* MeshDefinition::getPerTypeSize: number of triangles of each type in the whole mesh
h_pts(t) == Cardinality({i \in 1 .. Len(triangles) : triangles[i].type = t})

\* GPUArray::getPitch of the virial array
virial_pitch(r) == getN(r) + getNGhosts(r)

(***************************************************************************)
(* Domain decomposition: what each rank holds of a partitioned system       *)
(***************************************************************************)
\* the ascending sequence of the elements of a set of naturals
RECURSIVE SortedSeq(_)
SortedSeq(S) ==
    IF S = {} THEN <<>>
    ELSE LET m == CHOOSE x \in S : \A y \in S : x <= y
         IN  <<m>> \o SortedSeq(S \ {m})

\* only the triangles of mesh with every vertex owned by rank r
WhollyOwnedTriangles(mesh, owner, r) ==
    SelectSeq(mesh, LAMBDA tri : \A k \in 1 .. 3 : owner[tri.tag[k]] = r)

\* the triangles of mesh with a vertex owned by rank r
TrianglesOfRank(mesh, owner, r) ==
    SelectSeq(mesh, LAMBDA tri : \E k \in 1 .. 3 : owner[tri.tag[k]] = r)

\* ghost particles of rank r: the vertices of its triangles owned elsewhere
GhostsOfRank(mesh, owner, r) ==
    LET local == TrianglesOfRank(mesh, owner, r)
    IN  {t \in Tags : owner[t] # r /\ \E i \in 1 .. Len(local) : \E k \in 1 .. 3 :
                                          local[i].tag[k] = t}

\* the index of a tag that is not on the rank (0xffffffff in ParticleData.h;
\* the largest integer of the checker stands for it: only its being larger
\* than every array size is used)
NOT_LOCAL == 2147483647

\* particle data of rank r: owned particles first, then ghosts; a tag that
\* is not on the rank maps to NOT_LOCAL
PDataOfRank(mesh, owner, r) ==
    LET owned == SortedSeq({t \in Tags : owner[t] = r})
        ghosts == SortedSeq(GhostsOfRank(mesh, owner, r))
        tag == owned \o ghosts
    IN  [N |-> Len(owned), NGhosts |-> Len(ghosts), tag |-> tag,
         rtag |-> [t \in Tags |-> IF \E i \in 1 .. Len(tag) : tag[i] = t
                                  THEN (CHOOSE i \in 1 .. Len(tag) : tag[i] = t) - 1
                                  ELSE NOT_LOCAL]]

(***************************************************************************)
(* Geometry shared by the area precompute and the force loops               *)
(***************************************************************************)
\* if (c > 1.0) c = 1.0;  if (c < -1.0) c = -1.0;
Clamp(c) == IF Gt(c, R(1)) THEN R(1) ELSE IF Lt(c, R(-1)) THEN R(-1) ELSE c

\* s_baac = sqrt(1.0 - c_baac * c_baac), joined to what was computed before it
EdgeSine(dab, dac, rab, rac, nab, nac, c_baac) ==
    [dab |-> dab, dac |-> dac, rab |-> rab, rac |-> rac, nab |-> nab, nac |-> nac,
     c |-> c_baac, s |-> Sqrt(Sub(R(1), Mul(c_baac, c_baac)))]

\* nab = dab / rab, nac = dac / rac, c_baac = nab . nac, clamped
EdgeUnits(dab, dac, rab, rac, nab, nac) ==
    EdgeSine(dab, dac, rab, rac, nab, nac, Clamp(Dot(nab, nac)))

EdgeLengths(dab, dac, rab, rac) ==
    EdgeUnits(dab, dac, rab, rac, VDiv(dab, rab), VDiv(dac, rac))

\* edge lengths, unit edges and the clamped cosine and the sine of the angle
\* between the two edges dab, dac taken from the first vertex
EdgeAngles(dab, dac) ==
    EdgeLengths(dab, dac, Sqrt(Dot(dab, dab)), Sqrt(Dot(dac, dac)))

\* local indices of the three vertices of a triangle
TriIdx(r, tri) == <<h_rtag(r, tri.tag[1]), h_rtag(r, tri.tag[2]), h_rtag(r, tri.tag[3])>>

\* idx < m_pdata->getN() + m_pdata->getNGhosts() fails for a vertex of the triangle
TriOutOfBounds(r, tri) == \E k \in 1 .. 3 : TriIdx(r, tri)[k] \notin LocalIdx(r)

\* a triangle of rank r has a vertex whose local index is outside
\* [0, N + NGhosts): what the asserts of the host loops and the bounds check
\* of the kernel test
OutOfBounds(r) ==
    \E i \in 1 .. Len(LocalTriangles(r)) : TriOutOfBounds(r, LocalTriangles(r)[i])

\* a guard that lets every local particle through, ghosts included
IsLocalIdx(r, idx) == idx < getN(r) + getNGhosts(r)

\* do not update ghost particles
IsOwnedIdx(r, idx) == idx < getN(r)

\* triangle type used by the force loop of the whole-mesh variant
MeshType(tri) == IF m_ignore_type THEN 0 ELSE tri.type

\* a type taken as the mesh stores it, whatever m_ignore_type
StoredType(tri) == tri.type

\* triangle type used by precomputeParameter
PrecomputeType(tri) == IF m_ignore_type THEN 0 ELSE tri.type

(***************************************************************************)
(* AreaConservationMeshForceCompute::precomputeParameter                    *)
(***************************************************************************)
\* area_tri = rab * rac * s_baac / 2
AreaOfEdges(g) == Div(Mul(Mul(g.rab, g.rac), g.s), R(2))

\* area of one triangle, edges taken as b - a and c - a
PrecomputeTriArea(r, tri) ==
    LET idx == TriIdx(r, tri)
    IN  AreaOfEdges(EdgeAngles(minImage(VSub(h_pos(r, idx[2]), h_pos(r, idx[1]))),
                               minImage(VSub(h_pos(r, idx[3]), h_pos(r, idx[1])))))

\* an accumulation without the ownership guard
AlwaysAdd(r, idx, ga, x) == Add(ga, x)

\* if (idx < m_pdata->getN()) global_area[triangle_type] += x
OwnedAdd(r, idx, ga, x) == IF IsOwnedIdx(r, idx) THEN Add(ga, x) ELSE ga

\* global_area[triangle_type] after the accumulation of one triangle's area
AccumulateArea(r, idx, ga, area_tri) ==
    IF getDomainDecomposition
    THEN OwnedAdd(r, idx[3],
                  OwnedAdd(r, idx[2],
                           OwnedAdd(r, idx[1], ga, Div(area_tri, R(3))),
                           Div(area_tri, R(3))),
                  Div(area_tri, R(3)))
    ELSE Add(ga, area_tri)

\* global_area[triangle_type] after the loop body for one triangle
PrecomputeStep(r, tri, ga) ==
    AccumulateArea(r, TriIdx(r, tri), ga, PrecomputeTriArea(r, tri))

\* the loop over the local triangles of rank r, from triangle i on
RECURSIVE PrecomputeLoop(_, _, _)
PrecomputeLoop(r, i, global_area) ==
    IF i > Len(LocalTriangles(r)) THEN global_area
    ELSE PrecomputeLoop(r, i + 1,
             [global_area EXCEPT ![PrecomputeType(LocalTriangles(r)[i])] =
                                     PrecomputeStep(r, LocalTriangles(r)[i], @)])

\* the n entries of a C array as a sequence
RECURSIVE FieldsOf(_, _)
FieldsOf(array, n) == IF n = 0 THEN <<>> ELSE Append(FieldsOf(array, n - 1), array[n - 1])

\* global_area of rank r after its loop
LocalArea(r) == FieldsOf(PrecomputeLoop(r, 1, [t \in 0 .. getNTypes - 1 |-> Zero]), getNTypes)

\* element-wise sum of two sequences of Scalars
RECURSIVE SeqSum(_, _)
SeqSum(x, y) ==
    IF x = <<>> THEN <<>> ELSE <<Add(Head(x), Head(y))>> \o SeqSum(Tail(x), Tail(y))

\* MPI_Allreduce(MPI_SUM) of the ranks' arrays local[1 .. r + 1], rank 0 first
RECURSIVE AllreduceSum(_, _)
AllreduceSum(local, r) ==
    IF r = 0 THEN local[1] ELSE SeqSum(AllreduceSum(local, r - 1), local[r + 1])

\* global_area of the ranks 0 .. n - 1, rank 0 first
RECURSIVE LocalAreas(_)
LocalAreas(n) == IF n = 0 THEN <<>> ELSE Append(LocalAreas(n - 1), LocalArea(n - 1))

\* the reduction of the ranks' global_area arrays, if there is more than one rank
ReducedArea(local) ==
    IF getDomainDecomposition THEN AllreduceSum(local, nranks - 1) ELSE local[1]

\* global_area after precomputeParameter's reduction (entry t + 1 is type t)
PrecomputedArea == ReducedArea(LocalAreas(nranks))

(***************************************************************************)
(* The force loops                                                          *)
(***************************************************************************)
\* the six virial products of one edge vector d with one nodal force F
VirialEdge(d, F) ==
    << Mul(Mul(Half, d[1]), F[1]), Mul(Mul(Half, d[2]), F[1]), Mul(Mul(Half, d[3]), F[1]),
       Mul(Mul(Half, d[2]), F[2]), Mul(Mul(Half, d[3]), F[2]), Mul(Mul(Half, d[3]), F[3]) >>

\* the products of the shared vertex a taken at full weight
VirialSharedFull(dab, dac, Fab, Fac) ==
    << Add(Mul(dab[1], Fab[1]), Mul(dac[1], Fac[1])),
       Add(Mul(dab[2], Fab[1]), Mul(dac[2], Fac[1])),
       Add(Mul(dab[3], Fab[1]), Mul(dac[3], Fac[1])),
       Add(Mul(dab[2], Fab[2]), Mul(dac[2], Fac[2])),
       Add(Mul(dab[3], Fab[2]), Mul(dac[3], Fac[2])),
       Add(Mul(dab[3], Fab[3]), Mul(dac[3], Fac[3])) >>

\* the six virial products of the shared vertex a
VirialShared(dab, dac, Fab, Fac) ==
    << Mul(Half, Add(Mul(dab[1], Fab[1]), Mul(dac[1], Fac[1]))),
       Mul(Half, Add(Mul(dab[2], Fab[1]), Mul(dac[2], Fac[1]))),
       Mul(Half, Add(Mul(dab[3], Fab[1]), Mul(dac[3], Fac[1]))),
       Mul(Half, Add(Mul(dab[2], Fab[2]), Mul(dac[2], Fac[2]))),
       Mul(Half, Add(Mul(dab[3], Fab[2]), Mul(dac[3], Fac[2]))),
       Mul(Half, Add(Mul(dab[3], Fab[3]), Mul(dac[3], Fac[3]))) >>

\* a scratch array rewritten whatever the flag
ScratchAlways(flag, old, new) == new

\* the scratch array area_virial: rewritten only if (compute_virial)
ScratchVirial(flag, old, new) == IF flag THEN new ELSE old

ZeroVirial6 == <<Zero, Zero, Zero, Zero, Zero, Zero>>

\* ds_drab = -c_baac * inv_s_baac * dc_drab, ds_drac likewise
SineDerivatives(g, dc_drab, dc_drac) ==
    [dab |-> g.dab, dac |-> g.dac, rab |-> g.rab, rac |-> g.rac, nab |-> g.nab,
     nac |-> g.nac, c |-> g.c, s |-> g.s,
     ds_drab |-> VScale(Mul(Neg(g.c), Inv(g.s)), dc_drab),
     ds_drac |-> VScale(Mul(Neg(g.c), Inv(g.s)), dc_drac)]

\* dc_drab = -nac / rab + c_baac / rab * nab, dc_drac likewise
AngleDerivatives(g) ==
    SineDerivatives(g, VAdd(VDiv(VNeg(g.nac), g.rab), VScale(Div(g.c, g.rab), g.nab)),
                       VAdd(VDiv(VNeg(g.nab), g.rac), VScale(Div(g.c, g.rac), g.nac)))

\* edges a - b, a - c of a triangle with their angle derivatives
ForceGeometry(r, tri) ==
    LET idx == TriIdx(r, tri)
    IN  AngleDerivatives(EdgeAngles(minImage(VSub(h_pos(r, idx[1]), h_pos(r, idx[2]))),
                                    minImage(VSub(h_pos(r, idx[1]), h_pos(r, idx[3])))))

\* Fab = pre * (-nab * rac * s_baac + ds_drab * rab * rac)
EdgeForceAB(pre, g) ==
    VScale(pre, VAdd(VScale(g.s, VScale(g.rac, VNeg(g.nab))),
                     VScale(g.rac, VScale(g.rab, g.ds_drab))))

\* Fac = pre * (-nac * rab * s_baac + ds_drac * rab * rac)
EdgeForceAC(pre, g) ==
    VScale(pre, VAdd(VScale(g.s, VScale(g.rab, VNeg(g.nac))),
                     VScale(g.rac, VScale(g.rab, g.ds_drac))))

\* h_force.data[idx] += (F, energy) of the shared vertex a: F = Fab + Fac
AddForceShared(f, Fab, Fac, energy) ==
    << Add(f[1], Add(Fab[1], Fac[1])), Add(f[2], Add(Fab[2], Fac[2])),
       Add(f[3], Add(Fab[3], Fac[3])), Add(f[4], energy) >>

\* an update of vertex b or c that adds the edge force
AddForceEdge(f, F, energy) ==
    << Add(f[1], F[1]), Add(f[2], F[2]), Add(f[3], F[3]), Add(f[4], energy) >>

\* h_force.data[idx] -= F ; h_force.data[idx].w += energy, for vertex b or c
SubForceEdge(f, F, energy) ==
    << Sub(f[1], F[1]), Sub(f[2], F[2]), Sub(f[3], F[3]), Add(f[4], energy) >>

\* h_virial.data[j * virial_pitch + idx] += area_virial[j] for j = 0 .. 5
AddVirial(r, virial, idx, av) ==
    [virial EXCEPT ![idx] = Add(@, av[1]),
                   ![virial_pitch(r) + idx] = Add(@, av[2]),
                   ![2 * virial_pitch(r) + idx] = Add(@, av[3]),
                   ![3 * virial_pitch(r) + idx] = Add(@, av[4]),
                   ![4 * virial_pitch(r) + idx] = Add(@, av[5]),
                   ![5 * virial_pitch(r) + idx] = Add(@, av[6])]

\* one of the three guarded buffer updates at the end of a loop body: the
\* vertex with local index idx gets the force entry f and the scratch virial
\* av if it is owned; av stays in the scratch array either way
WriteVertex(r, acc, idx, f, av) ==
    IF IsOwnedIdx(r, idx)
    THEN [force |-> [acc.force EXCEPT ![idx] = f],
          virial |-> AddVirial(r, acc.virial, idx, av), av |-> av]
    ELSE [force |-> acc.force, virial |-> acc.virial, av |-> av]

\* the update of vertex a; cv is the local compute_virial
WriteVertexA(r, cv, acc, idx, g, Fab, Fac, energy) ==
    WriteVertex(r, acc, idx[1], AddForceShared(acc.force[idx[1]], Fab, Fac, energy),
                ScratchVirial(cv, acc.av, VirialShared(g.dab, g.dac, Fab, Fac)))

\* the update of vertex b (k = 2, d = dab, F = Fab) or c (k = 3, d = dac, F = Fac)
WriteVertexBC(r, cv, acc, idx, k, d, F, energy) ==
    WriteVertex(r, acc, idx[k], SubForceEdge(acc.force[idx[k]], F, energy),
                ScratchVirial(cv, acc.av, VirialEdge(d, F)))

\* the three guarded buffer updates at the end of a loop body; acc holds the
\* buffers and the scratch virial array as the previous triangle left them
ApplyTriangle(r, cv, acc, idx, g, Fab, Fac, energy) ==
    WriteVertexBC(r, cv,
        WriteVertexBC(r, cv, WriteVertexA(r, cv, acc, idx, g, Fab, Fac, energy),
                      idx, 2, g.dab, Fab, energy),
        idx, 3, g.dac, Fac, energy)

\* a force array left as the previous call wrote it
StaleForce(r) == m_force[r]

\* memset of the force and virial arrays at the start of computeForces
ClearedForce(r) == [idx \in LocalIdx(r) |-> <<Zero, Zero, Zero, Zero>>]

ClearedVirial(r) == [k \in 0 .. 6 * virial_pitch(r) - 1 |-> Zero]

\* a count that is the size of the whole mesh for every triangle
MeshTriNWhole(tri) == getSize

\* a count that is 1 under m_ignore_type
MeshTriNOne(tri) == IF m_ignore_type THEN 1 ELSE h_pts(tri.type)

\* triN: getSize() under m_ignore_type, else h_pts.data[triangle_type]
MeshTriN(tri) == IF m_ignore_type THEN getSize ELSE h_pts(tri.type)

\* energy = m_K * AreaDiff * AreaDiff / (6 * m_A0 * triN)
MeshEnergy(K, A0, area, triN) ==
    Div(Mul(Mul(K, Sub(area, A0)), Sub(area, A0)), Mul(Mul(R(6), A0), R(triN)))

\* a prefactor taken from the area instead of its difference to the target
MeshPrefactorNoTarget(K, A0, area) == Div(Mul(Div(K, A0), area), R(2))

\* AreaDiff = m_K / m_A0 * AreaDiff / 2.0
MeshPrefactor(K, A0, area) == Div(Mul(Div(K, A0), Sub(area, A0)), R(2))

\* the force part of the loop body, g being the triangle's geometry and pre
\* the prefactor
MeshTriangleForces(r, cv, tri, acc, g, pre, energy) ==
    ApplyTriangle(r, cv, acc, TriIdx(r, tri), g, EdgeForceAB(pre, g), EdgeForceAC(pre, g),
                  energy)

\* loop body of AreaConservationMeshForceCompute::computeForces
\* (K, A0 are the parameter arrays read, area is m_area, entry t + 1 for type t)
MeshLoopBody(r, cv, tri, K, A0, area, acc) ==
    MeshTriangleForces(r, cv, tri, acc, ForceGeometry(r, tri),
        MeshPrefactor(K[MeshType(tri)], A0[MeshType(tri)], area[MeshType(tri) + 1]),
        MeshEnergy(K[MeshType(tri)], A0[MeshType(tri)], area[MeshType(tri) + 1],
                   MeshTriN(tri)))

RECURSIVE MeshLoop(_, _, _, _, _, _, _)
MeshLoop(r, cv, i, K, A0, area, acc) ==
    IF i > Len(LocalTriangles(r)) THEN acc
    ELSE MeshLoop(r, cv, i + 1, K, A0, area,
                  MeshLoopBody(r, cv, LocalTriangles(r)[i], K, A0, area, acc))

\* buffers of rank r after the loop of AreaConservationMeshForceCompute::computeForces,
\* area being m_area as precomputeParameter left it (entry t + 1 is type t)
MeshForces(r, cv, K, A0, area) ==
    MeshLoop(r, cv, 1, K, A0, area, [force |-> ClearedForce(r), virial |-> ClearedVirial(r),
                                     av |-> ZeroVirial6])

\* tri_area = rab * rac * s_baac / 6
TriThirdArea(g) == Div(Mul(Mul(g.rab, g.rac), g.s), R(6))

\* a difference to the target taken from the accumulated area of type 0, the
\* way the whole-mesh variant takes it
CoupledUt(g, At) == Sub(m_area[0], At)

\* Ut = 3 * tri_area - At
TriUt(g, At) == Sub(Mul(R(3), TriThirdArea(g)), At)

\* the energy of the whole triangle given to each vertex
TriEnergyWhole(K, At, Ut) == Mul(Mul(Div(K, Mul(R(2), At)), Ut), Ut)

\* m_K / (6.0 * At) * Ut * Ut
TriEnergy(K, At, Ut) == Mul(Mul(Div(K, Mul(R(6), At)), Ut), Ut)

\* prefactor = m_K / (2 * At) * Ut
TriPrefactor(K, At, Ut) == Mul(Div(K, Mul(R(2), At)), Ut)

\* global_area[triangle_type] += tri_area once per owned vertex
TriAreaStep(r, idx, ga, tri_area) ==
    OwnedAdd(r, idx[3], OwnedAdd(r, idx[2], OwnedAdd(r, idx[1], ga, tri_area), tri_area),
             tri_area)

\* the buffers out and the array global_area after one triangle
TriAccumulated(out, global_area) ==
    [force |-> out.force, virial |-> out.virial, av |-> out.av, ga |-> global_area]

\* the loop body from Ut on, g being the triangle's geometry
TriTriangleForces(r, cv, tri, acc, g, Ut) ==
    TriAccumulated(
        ApplyTriangle(r, cv, acc, TriIdx(r, tri), g,
                      EdgeForceAB(TriPrefactor(m_K[tri.type], m_A0[tri.type], Ut), g),
                      EdgeForceAC(TriPrefactor(m_K[tri.type], m_A0[tri.type], Ut), g),
                      TriEnergy(m_K[tri.type], m_A0[tri.type], Ut)),
        [acc.ga EXCEPT ![tri.type] = TriAreaStep(r, TriIdx(r, tri), @, TriThirdArea(g))])

\* the loop body from the geometry on
TriTriangle(r, cv, tri, acc, g) ==
    TriTriangleForces(r, cv, tri, acc, g, TriUt(g, m_A0[tri.type]))

\* loop body of TriangleAreaConservationMeshForceCompute::computeForces
TriLoopBody(r, cv, tri, acc) == TriTriangle(r, cv, tri, acc, ForceGeometry(r, tri))

RECURSIVE TriLoop(_, _, _, _)
TriLoop(r, cv, i, acc) ==
    IF i > Len(LocalTriangles(r)) THEN acc
    ELSE TriLoop(r, cv, i + 1, TriLoopBody(r, cv, LocalTriangles(r)[i], acc))

\* the buffers and global_area of acc, global_area as a sequence
TriOutput(acc) ==
    [force |-> acc.force, virial |-> acc.virial, ga |-> FieldsOf(acc.ga, getNTypes)]

\* buffers and local global_area of rank r after the per-triangle loop
TriForces(r, cv) ==
    TriOutput(TriLoop(r, cv, 1, [force |-> ClearedForce(r), virial |-> ClearedVirial(r),
                                 av |-> ZeroVirial6,
                                 ga |-> [t \in 0 .. getNTypes - 1 |-> Zero]]))

(***************************************************************************)
(* Construction and the operations                                          *)
(***************************************************************************)
\* number of slots of m_K, m_A0 and m_area allocated by the constructor
AllocTypes == IF variant = "mesh" /\ m_ignore_type THEN 1 ELSE getNTypes

\* the domain decompositions considered for n ranks: round robin and blocks
Partitions(n) ==
    { [t \in Tags |-> t % n], [t \in Tags |-> (t * n) \div Cardinality(Tags)] }

\* contents of freshly allocated, uninitialised Scalar arrays
Garbage == {Zero, R(7)}

\* the force and virial arrays as the ForceCompute base class allocates them
AllocatedForce(r) == [idx \in LocalIdx(r) |-> <<Zero, Zero, Zero, Zero>>]

AllocatedVirial(r) == [k \in 0 .. 6 * virial_pitch(r) - 1 |-> Zero]

\* the state after constructing a compute of class v over some mesh and some
\* domain decomposition
Construct(v) ==
    /\ variant = v
    /\ m_ignore_type \in (IF variant = "mesh" THEN BOOLEAN ELSE {FALSE})
    /\ nranks \in 1 .. MaxRanks
    /\ triangles \in {SubSeq(TriList, 1, n) : n \in 1 .. MaxTri}
    /\ \E owner \in Partitions(nranks) :
          /\ m_pdata = [r \in Ranks |-> PDataOfRank(triangles, owner, r)]
          /\ m_mesh_data = [r \in Ranks |-> TrianglesOfRank(triangles, owner, r)]
    /\ pos = [t \in Tags |-> PosChoices[t + 1][1]]
    /\ compute_virial = FALSE
    /\ \E p \in [0 .. AllocTypes - 1 -> 1 .. Len(ParamVals)] :
          /\ m_K = [t \in 0 .. AllocTypes - 1 |-> ParamVals[p[t]][1]]
          /\ m_A0 = [t \in 0 .. AllocTypes - 1 |-> ParamVals[p[t]][2]]
    /\ \E x \in Garbage : m_area = [t \in 0 .. AllocTypes - 1 |-> x]
    /\ m_area_overrun = {}
    /\ m_force = [r \in Ranks |-> AllocatedForce(r)]
    /\ m_virial = [r \in Ranks |-> AllocatedVirial(r)]
    /\ m_tuner = "idle"
    /\ last_call = "other"
    /\ returned = <<>>
    /\ m_K_overrun = {}
    /\ warnings = {}
    /\ python_tuner = NoTuner
    /\ mpcd = NoFiller

\* foreign memory behind the position array in a system whose topology is
\* valid: it is never read
NoFault == [segv |-> FALSE, p |-> <<0, 0, 0>>]

\* a host compute of either variant; no GPU is involved
Init ==
    /\ \E v \in {"mesh", "triangle"} : Construct(v)
    /\ error_checking = FALSE
    /\ m_params = <<>>
    /\ m_flags = 0
    /\ ndebug = TRUE
    /\ h_pos_oob = NoFault

\* a store that keeps a stiffness or a target area that is not positive away
ClampedStore(type, K, A0) ==
    /\ m_K' = [m_K EXCEPT ![type] = IF Le(K, Zero) THEN R(1) ELSE K]
    /\ m_A0' = [m_A0 EXCEPT ![type] = IF Le(A0, Zero) THEN R(1) ELSE A0]
    /\ UNCHANGED <<m_area, m_K_overrun>>

\* m_K[type] = K; m_A0[type] = A0; for a type the arrays have a slot for
StoreInBounds(type, K, A0) ==
    /\ m_K' = [m_K EXCEPT ![type] = K]
    /\ m_A0' = [m_A0 EXCEPT ![type] = A0]
    /\ UNCHANGED <<m_area, m_K_overrun>>

\* m_K[type] = K; m_A0[type] = A0; for a type past the end of the arrays: the
\* two writes land in the allocator's slack, or, the three arrays lying back
\* to back, on the first slot of the array allocated next (m_A0 after m_K,
\* m_area after m_A0)
StoreOutOfBounds(type, K, A0) ==
    /\ m_K_overrun' = m_K_overrun \cup {type}
    /\ \E hit \in BOOLEAN :
          IF hit
          THEN /\ m_A0' = [m_A0 EXCEPT ![0] = K]
               /\ m_area' = [m_area EXCEPT ![0] = A0]
               /\ UNCHANGED m_K
          ELSE UNCHANGED <<m_K, m_A0, m_area>>

\* if (K <= 0) warning() << "specified K <= 0"; if (A0 <= 0) warning() << "specified A0 <= 0"
Warned(K, A0) ==
    (IF Le(K, Zero) THEN {"K"} ELSE {}) \cup (IF Le(A0, Zero) THEN {"A0"} ELSE {})

\* a setParams that stores and warns for every type, collapsed or not
StoresAnyType(type) == TRUE

\* if (!m_ignore_type || type == 0) of the whole-mesh variant; the per-triangle
\* variant has no such test
StoresType(type) == variant = "triangle" \/ ~m_ignore_type \/ type = 0

\* setParams(type, K, A0) of either variant, called alike on every rank: the
\* store and the warnings for K <= 0 and A0 <= 0, both under the same test
setParams(type, K, A0) ==
    /\ variant \in {"mesh", "triangle"}
    /\ IF StoresType(type)
       THEN /\ IF type < AllocTypes
               THEN StoreInBounds(type, K, A0)
               ELSE StoreOutOfBounds(type, K, A0)
            /\ warnings' = Warned(K, A0)
       ELSE /\ UNCHANGED <<m_K, m_A0, m_area, m_K_overrun>>
            /\ warnings' = {}
    /\ last_call' = "setParams"
    /\ UNCHANGED <<variant, m_ignore_type, nranks, triangles, m_mesh_data, build, elsewhere, returned,
                   m_pdata, error_checking, gpu, pos, compute_virial, m_area_overrun,
                   m_force, m_virial>>

\* MeshTriangleData::getTypeByName for a name that is a type of the mesh
getTypeByName(name) == (CHOOSE i \in 1 .. Len(MeshTypeNames) : MeshTypeNames[i] = name) - 1

\* a name getTypeByName does not find: it raises
UnknownType(name) == \A i \in 1 .. Len(MeshTypeNames) : MeshTypeNames[i] # name

\* if (m_ignore_type) typ = 0;  (the per-triangle class has no such mode)
ParamSlot(typ) == IF variant = "mesh" /\ m_ignore_type THEN 0 ELSE typ

\* a dict with the two entries exchanged
SwappedParams(typ) == [k |-> m_A0[ParamSlot(typ)], A0 |-> m_K[ParamSlot(typ)]]

\* the dict getParams builds for a type id that passed its check
ParamsOf(typ) == [k |-> m_K[ParamSlot(typ)], A0 |-> m_A0[ParamSlot(typ)]]

\* getParams(type name) of either host class
getParams(name) ==
    /\ variant \in {"mesh", "triangle"}
    /\ IF UnknownType(name) \/ getTypeByName(name) >= getNTypes
       THEN last_call' = "throw" /\ UNCHANGED returned
       ELSE last_call' = "getParams" /\ returned' = ParamsOf(getTypeByName(name))
    /\ UNCHANGED <<variant, m_ignore_type, nranks, triangles, m_mesh_data, build, elsewhere, m_K_overrun,
                   warnings, m_pdata, error_checking, gpu, pos, compute_virial, m_K, m_A0,
                   m_area, m_area_overrun, m_force, m_virial>>

\* the integrator moves a particle
setPosition(tag, p) ==
    /\ pos[tag] # p
    /\ pos' = [pos EXCEPT ![tag] = p]
    /\ last_call' = "other"
    /\ UNCHANGED <<system, gpu, compute_virial, m_K, m_A0, m_area, m_area_overrun, m_force,
                   m_virial>>

\* ParticleData::setFlags switching pdata_flag::pressure_tensor
setFlags(flag) ==
    /\ compute_virial # flag
    /\ compute_virial' = flag
    /\ last_call' = "other"
    /\ UNCHANGED <<system, gpu, pos, m_K, m_A0, m_area, m_area_overrun, m_force, m_virial>>

\* for (i < n_types) m_area[i] = global_area[i]
StoreArea(global_area) ==
    /\ m_area' = [t \in 0 .. AllocTypes - 1 |-> global_area[t + 1]]
    /\ m_area_overrun' = m_area_overrun \cup (AllocTypes .. getNTypes - 1)

\* the buffers rank by rank as the arrays m_force and m_virial
ForceOfRanks(out) == [r \in Ranks |-> out[r + 1].force]

VirialOfRanks(out) == [r \in Ranks |-> out[r + 1].virial]

\* outcome of AreaConservationMeshForceCompute::computeForces on every rank:
\* precomputeParameter, then the force loop reading the new m_area
\* (cv is the local compute_virial = flags[pdata_flag::pressure_tensor])
MeshOutput(area, out) ==
    [area |-> area, force |-> ForceOfRanks(out), virial |-> VirialOfRanks(out)]

\* the force loop of the ranks 0 .. n - 1, rank 0 first
RECURSIVE MeshForcesOfRanks(_, _, _, _, _)
MeshForcesOfRanks(cv, K, A0, area, n) ==
    IF n = 0 THEN <<>>
    ELSE Append(MeshForcesOfRanks(cv, K, A0, area, n - 1), MeshForces(n - 1, cv, K, A0, area))

MeshResultWith(cv, area) ==
    MeshOutput(area, MeshForcesOfRanks(cv, m_K, m_A0, area, nranks))

MeshResult(cv) == MeshResultWith(cv, PrecomputedArea)

\* outcome of TriangleAreaConservationMeshForceCompute::computeForces on every
\* rank: the force loop, then the reduction of global_area
TriangleOutput(out) ==
    [area |-> ReducedArea([i \in 1 .. nranks |-> out[i].ga]),
     force |-> ForceOfRanks(out), virial |-> VirialOfRanks(out)]

\* the force loop of the ranks 0 .. n - 1, rank 0 first
RECURSIVE TriForcesOfRanks(_, _)
TriForcesOfRanks(cv, n) ==
    IF n = 0 THEN <<>> ELSE Append(TriForcesOfRanks(cv, n - 1), TriForces(n - 1, cv))

TriangleResult(cv) == TriangleOutput(TriForcesOfRanks(cv, nranks))

\* a host loop over a triangle with an index out of range never returns:
\* built without NDEBUG the assert on the index ends the process; built with
\* NDEBUG the assert is gone and h_pos.data is read past its end, which ends
\* the process if the read faults
HostAborts == (\E r \in Ranks : OutOfBounds(r)) /\ (~ndebug \/ h_pos_oob.segv)

\* the process is gone; nothing of it is looked at again
Aborted ==
    /\ last_call' = "abort"
    /\ UNCHANGED <<m_area, m_area_overrun, m_force, m_virial>>

\* AreaConservationMeshForceCompute::computeForces, executed by every rank
MeshComputeForces ==
    /\ variant = "mesh"
    /\ IF HostAborts
       THEN Aborted
       ELSE /\ \E res \in {MeshResult(compute_virial)} :
                  /\ StoreArea(res.area)
                  /\ m_force' = res.force
                  /\ m_virial' = res.virial
            /\ last_call' = "computeForces"
    /\ UNCHANGED <<system, gpu, pos, compute_virial, m_K, m_A0>>

\* TriangleAreaConservationMeshForceCompute::computeForces, executed by every rank
TriangleComputeForces ==
    /\ variant = "triangle"
    /\ IF HostAborts
       THEN Aborted
       ELSE /\ \E res \in {TriangleResult(compute_virial)} :
                  /\ StoreArea(res.area)
                  /\ m_force' = res.force
                  /\ m_virial' = res.virial
            /\ last_call' = "computeForces"
    /\ UNCHANGED <<system, gpu, pos, compute_virial, m_K, m_A0>>

Next ==
    \/ \E type \in 0 .. getNTypes - 1 : \E k \in 1 .. Len(ParamVals) :
          setParams(type, ParamVals[k][1], ParamVals[k][2])
    \/ \E tag \in Tags : \E k \in 1 .. Len(PosChoices[tag + 1]) :
          setPosition(tag, PosChoices[tag + 1][k])
    \/ \E flag \in BOOLEAN : setFlags(flag)
    \/ MeshComputeForces
    \/ TriangleComputeForces

Spec == Init /\ [][Next]_vars

(***************************************************************************)
(* Parameters that are not positive                                         *)
(***************************************************************************)
\* (K, A0) pairs with K <= 0 or A0 <= 0
DegenerateVals == << <<R(-2), R(30)>>, <<R(2), R(-30)>>, <<R(2), Zero>>, <<Zero, R(30)>> >>

\* a host compute on one rank over the mesh of two triangles
InitParams ==
    /\ Init
    /\ nranks = 1
    /\ Len(triangles) = 2
    /\ m_K[0] = ParamVals[1][1]
    /\ m_A0[0] = ParamVals[1][2]

NextParams ==
    \/ \E type \in 0 .. getNTypes - 1 : \E v \in 1 .. Len(DegenerateVals) :
          setParams(type, DegenerateVals[v][1], DegenerateVals[v][2])
    \/ \E type \in 0 .. getNTypes - 1 : setParams(type, ParamVals[1][1], ParamVals[1][2])
    \/ MeshComputeForces
    \/ TriangleComputeForces

SpecParams == InitParams /\ [][NextParams]_vars

(***************************************************************************)
(* Types that are no type of the mesh                                       *)
(***************************************************************************)
\* the type names getParams is called with; the last is no type of the mesh
TypeNames == MeshTypeNames \o <<"none">>

NextInvalid ==
    \/ \E type \in 0 .. getNTypes : \E v \in 1 .. Len(ParamVals) :
          setParams(type, ParamVals[v][1], ParamVals[v][2])
    \/ \E i \in 1 .. Len(TypeNames) : getParams(TypeNames[i])

SpecInvalid == InitParams /\ [][NextInvalid]_vars

(***************************************************************************)
(* Topologies with a tag that resolves to no valid local index              *)
(***************************************************************************)
\* the tag whose entry of the tag -> index map goes wrong
FaultTag == 1

\* the indices out of range it can hold: NOT_LOCAL, or the first index past
\* the end of the particle arrays
BadIndices(r) == {NOT_LOCAL, getN(r) + getNGhosts(r)}

\* what a read of the position array at such an index can give: a fault of
\* the read, or whatever lies there
OobReads ==
    {[segv |-> TRUE, p |-> <<0, 0, 0>>]}
        \cup {[segv |-> FALSE, p |-> PosChoices[FaultTag + 1][k]] :
                 k \in 1 .. Len(PosChoices[FaultTag + 1])}

\* the index of a tag held by rank r in its particle arrays
IndexOfTag(r, t) == (CHOOSE i \in 1 .. Len(m_pdata[r].tag) : m_pdata[r].tag[i] = t) - 1

\* h_rtag of rank r comes to hold an index out of range for the tag
corruptRTag(r, idx) ==
    /\ m_pdata[r].rtag[FaultTag] \in LocalIdx(r)
    /\ m_pdata' = [m_pdata EXCEPT ![r].rtag[FaultTag] = idx]
    /\ last_call' = "other"
    /\ UNCHANGED <<config, error_checking, gpu, pos, compute_virial, m_K, m_A0, m_area,
                   m_area_overrun, m_force, m_virial>>

\* the surrounding system rebuilds the map: the tag resolves again
repairRTag(r) ==
    /\ m_pdata[r].rtag[FaultTag] \notin LocalIdx(r)
    /\ \E i \in 1 .. Len(m_pdata[r].tag) : m_pdata[r].tag[i] = FaultTag
    /\ m_pdata' = [m_pdata EXCEPT ![r].rtag[FaultTag] = IndexOfTag(r, FaultTag)]
    /\ last_call' = "other"
    /\ UNCHANGED <<config, error_checking, gpu, pos, compute_virial, m_K, m_A0, m_area,
                   m_area_overrun, m_force, m_virial>>

\* a host compute over the mesh of two triangles, in a build with or without
\* NDEBUG
InitFault ==
    /\ \E v \in {"mesh", "triangle"} : Construct(v)
    /\ nranks <= 2
    /\ Len(triangles) = 2
    /\ \A t \in DOMAIN m_K : m_K[t] = ParamVals[1][1] /\ m_A0[t] = ParamVals[1][2]
    /\ m_area[0] = Zero
    /\ error_checking = FALSE
    /\ m_params = <<>>
    /\ m_flags = 0
    /\ ndebug \in BOOLEAN
    /\ h_pos_oob \in OobReads

\* after an abort there is no process left to call
Running == last_call # "abort"

NextFault ==
    \/ \E r \in Ranks : \E idx \in BadIndices(r) : Running /\ corruptRTag(r, idx)
    \/ \E r \in Ranks : Running /\ repairRTag(r)
    \/ \E k \in 1 .. Len(PosChoices[FaultTag + 1]) :
          Running /\ setPosition(FaultTag, PosChoices[FaultTag + 1][k])
    \/ Running /\ MeshComputeForces
    \/ Running /\ TriangleComputeForces

SpecFault == InitFault /\ [][NextFault]_vars

(***************************************************************************)
(* AreaConservationMeshForceComputeGPU                                      *)
(***************************************************************************)
\* the constructor: the base class constructor without ignore_type, the
\* zeroed device parameter table, the error flag reset to 0; the GPU class is
\* run on a single rank
InitGPU ==
    /\ Construct("gpu")
    /\ nranks = 1
    /\ error_checking \in BOOLEAN
    /\ m_params = [t \in 0 .. getNTypes - 1 |-> <<Zero, Zero>>]
    /\ m_flags = 0
    /\ ndebug = TRUE
    /\ h_pos_oob = NoFault

\* the setParams of the base class alone: the device table is not touched
HostOnlySetParams(type, K, A0) ==
    /\ variant = "gpu"
    /\ m_K' = [m_K EXCEPT ![type] = K]
    /\ m_A0' = [m_A0 EXCEPT ![type] = A0]
    /\ warnings' = Warned(K, A0)
    /\ last_call' = "setParams"
    /\ UNCHANGED <<variant, m_ignore_type, nranks, triangles, m_mesh_data, build, elsewhere, returned,
                   m_K_overrun, m_pdata, error_checking, gpu, pos, compute_virial, m_area,
                   m_area_overrun, m_force, m_virial>>

\* AreaConservationMeshForceComputeGPU::setParams
GPUsetParams(type, K, A0) ==
    /\ variant = "gpu"
    /\ m_K' = [m_K EXCEPT ![type] = K]
    /\ m_A0' = [m_A0 EXCEPT ![type] = A0]
    /\ m_params' = [m_params EXCEPT ![type] = <<K, A0>>]
    /\ warnings' = Warned(K, A0)
    /\ last_call' = "setParams"
    /\ UNCHANGED <<variant, m_ignore_type, nranks, triangles, m_mesh_data, build, elsewhere, returned,
                   m_K_overrun, m_pdata, error_checking, m_flags, m_tuner, pos,
                   compute_virial, m_area, m_area_overrun, m_force, m_virial>>

\* the error flag word after the kernel
KernelFlags == IF \E r \in Ranks : OutOfBounds(r) THEN 1 ELSE m_flags

\* the two columns of the device parameter table
d_params_K == [t \in 0 .. getNTypes - 1 |-> m_params[t][1]]

d_params_A0 == [t \in 0 .. getNTypes - 1 |-> m_params[t][2]]

\* the work items of the kernel over the triangles of rank r: a triangle with
\* an index out of range is recorded in the flag and left alone, the others
\* are evaluated as in the host loop
RECURSIVE KernelLoop(_, _, _, _, _, _, _)
KernelLoop(r, cv, i, K, A0, area, acc) ==
    IF i > Len(LocalTriangles(r)) THEN acc
    ELSE KernelLoop(r, cv, i + 1, K, A0, area,
                    IF TriOutOfBounds(r, LocalTriangles(r)[i]) THEN acc
                    ELSE MeshLoopBody(r, cv, LocalTriangles(r)[i], K, A0, area, acc))

KernelForces(r, cv, K, A0, area) ==
    KernelLoop(r, cv, 1, K, A0, area, [force |-> ClearedForce(r), virial |-> ClearedVirial(r),
                                       av |-> ZeroVirial6])

\* kernel::gpu_compute_AreaConservation_force on every rank: the force
\* evaluation of the host loop with the device parameters; the aggregate area
\* is what the area array holds, the kernel being given no area
KernelResult ==
    MeshOutput(m_area, [i \in 1 .. nranks |->
                           KernelForces(i - 1, compute_virial, d_params_K, d_params_A0,
                                        FieldsOf(m_area, getNTypes))])

\* the check after the launch raises anyway, error checking enabled or not
FlagRaisesUnchecked(checking, flags) == flags % 2 = 1

\* if (isCUDAErrorCheckingEnabled()) ... if (h_flags.data[0] & 1) throw
FlagRaises(checking, flags) == checking /\ flags % 2 = 1

\* a tuner ended on every way out of the call
TunerAlwaysEnded(raised) == "idle"

\* m_tuner->begin() before the launch; m_tuner->end() after the check of the
\* flag, which the throw leaves out
TunerAfter(raised) == IF raised THEN "begun" ELSE "idle"

\* AreaConservationMeshForceComputeGPU::computeForces: begin the tuner, launch
\* the kernel, with error checking enabled read the flag and throw if bit 0
\* is set, else end the tuner
GPUComputeForces ==
    /\ variant = "gpu"
    /\ \E res \in {KernelResult} :
          /\ m_force' = res.force
          /\ m_virial' = res.virial
    /\ m_flags' = KernelFlags
    /\ m_tuner' = TunerAfter(FlagRaises(error_checking, m_flags'))
    /\ last_call' = (IF FlagRaises(error_checking, m_flags') THEN "throw" ELSE "computeForces")
    /\ UNCHANGED <<system, m_params, pos, compute_virial, m_K, m_A0, m_area, m_area_overrun>>

NextGPU ==
    \/ \E type \in 0 .. getNTypes - 1 : \E k \in 1 .. Len(ParamVals) :
          GPUsetParams(type, ParamVals[k][1], ParamVals[k][2])
    \/ \E tag \in Tags : \E k \in 1 .. Len(PosChoices[tag + 1]) :
          setPosition(tag, PosChoices[tag + 1][k])
    \/ \E flag \in BOOLEAN : setFlags(flag)
    \/ GPUComputeForces

SpecGPU == InitGPU /\ [][NextGPU]_vars

\* ExecutionConfiguration::setCUDAErrorChecking
setCUDAErrorChecking(flag) ==
    /\ error_checking # flag
    /\ error_checking' = flag
    /\ last_call' = "other"
    /\ UNCHANGED <<config, m_pdata, gpu, pos, compute_virial, m_K, m_A0, m_area,
                   m_area_overrun, m_force, m_virial>>

\* the GPU compute over the mesh of two triangles, the topology going wrong
\* and being repaired between the calls
InitGPUFault ==
    /\ InitGPU
    /\ Len(triangles) = 2
    /\ \A t \in DOMAIN m_K : m_K[t] = ParamVals[1][1] /\ m_A0[t] = ParamVals[1][2]

NextGPUFault ==
    \/ \E r \in Ranks : \E idx \in BadIndices(r) : corruptRTag(r, idx)
    \/ \E r \in Ranks : repairRTag(r)
    \/ \E flag \in BOOLEAN : setCUDAErrorChecking(flag)
    \/ \E type \in 0 .. getNTypes - 1 : GPUsetParams(type, ParamVals[1][1], ParamVals[1][2])
    \/ GPUComputeForces

SpecGPUFault == InitGPUFault /\ [][NextGPUFault]_vars

(***************************************************************************)
(* Degenerate triangles: coincident and collinear vertices                  *)
(***************************************************************************)
\* positions of the tags 1 and 2 that make triangles degenerate: tag 1 on
\* tag 0, tag 2 on the line through tags 0 and 1 or on tag 1
DegeneratePos ==
    << << >>,
       << <<14, 0, 0>>, <<-15, 4, 0>>, <<-12, 8, 0>> >>,
       << <<11, -4, 12>>, <<-12, 8, 0>> >> >>

\* the whole-mesh host compute over the mesh of two triangles
InitDegenerate ==
    /\ Init
    /\ variant = "mesh"
    /\ Len(triangles) = 2
    /\ \A t \in DOMAIN m_K : m_K[t] = ParamVals[1][1] /\ m_A0[t] = ParamVals[1][2]

NextDegenerate ==
    \/ \E tag \in 1 .. 2 : \E k \in 1 .. Len(DegeneratePos[tag + 1]) :
          setPosition(tag, DegeneratePos[tag + 1][k])
    \/ MeshComputeForces

SpecDegenerate == InitDegenerate /\ [][NextDegenerate]_vars

(***************************************************************************)
(* PythonTuner                                                              *)
(***************************************************************************)
\* the force compute and everything around it
md == <<variant, m_ignore_type, nranks, triangles, m_pdata, m_mesh_data, pos, compute_virial,
        m_K, m_A0, m_area, m_area_overrun, m_force, m_virial, error_checking, gpu,
        last_call, returned, build, m_K_overrun, warnings>>

\* no force compute has been constructed
NoCompute ==
    /\ variant = "none"
    /\ m_ignore_type = FALSE
    /\ nranks = 1
    /\ triangles = <<>>
    /\ m_pdata = <<>>
    /\ m_mesh_data = <<>>
    /\ pos = <<>>
    /\ compute_virial = FALSE
    /\ m_K = <<>> /\ m_A0 = <<>> /\ m_area = <<>>
    /\ m_area_overrun = {}
    /\ m_force = <<>> /\ m_virial = <<>>
    /\ error_checking = FALSE
    /\ m_params = <<>> /\ m_flags = 0 /\ m_tuner = "idle"
    /\ last_call = "other"
    /\ returned = <<>>
    /\ ndebug = TRUE /\ h_pos_oob = NoFault
    /\ m_K_overrun = {}
    /\ warnings = {}

\* the Python objects a tuner is set to, each given by the list its attribute
\* flags holds; an entry below zero stands for one that flag.cast<size_t>()
\* refuses, raising pybind11::cast_error
TunerObjects == << <<0>>, <<1, 2, 1>>, <<>>, <<2, -1>> >>

\* the timesteps update is called with
Timesteps == 0 .. 2

\* PDataFlags::set(i)
SetFlag(flags, i) == IF (flags \div (2 ^ i)) % 2 = 1 THEN flags ELSE flags + 2 ^ i

\* an empty PDataFlags
NoFlags == 0

\* the outcome of a loop that raised
Raised == -1

\* for (auto flag : tuner.attr("flags")) flags.set(flag.cast<size_t>()), from
\* entry k of the list on
RECURSIVE FlagLoop(_, _, _)
FlagLoop(list, k, flags) ==
    IF k > Len(list) THEN flags
    ELSE IF list[k] < 0 THEN Raised
    ELSE FlagLoop(list, k + 1, SetFlag(flags, list[k]))

\* PythonTuner::setTuner: m_tuner = tuner; the loop over the flags; m_flags = flags
setTuner(tuner) ==
    /\ python_tuner # NoTuner
    /\ \E flags \in {FlagLoop(TunerObjects[tuner], 1, NoFlags)} :
          python_tuner' =
              [python_tuner EXCEPT !.m_tuner = tuner,
                                   !.m_flags = IF flags = Raised THEN @ ELSE flags,
                                   !.set_ok = IF flags = Raised THEN @ ELSE tuner,
                                   !.call = IF flags = Raised THEN "throw" ELSE "setTuner"]
    /\ UNCHANGED <<md, mpcd>>

\* PythonTuner::getRequestedPDataFlags
getRequestedPDataFlags ==
    /\ python_tuner # NoTuner
    /\ python_tuner' = [python_tuner EXCEPT !.requested = python_tuner.m_flags,
                                            !.call = "getRequestedPDataFlags"]
    /\ UNCHANGED <<md, mpcd>>

\* PythonTuner::update: Updater::update(timestep); m_tuner.attr("act")(timestep)
update(timestep) ==
    /\ python_tuner # NoTuner
    /\ python_tuner' = [python_tuner EXCEPT !.acted = <<python_tuner.m_tuner, timestep>>,
                                            !.call = "update"]
    /\ UNCHANGED <<md, mpcd>>

\* the constructor: setTuner(tuner), for a tuner it does not raise on
InitTuner ==
    /\ NoCompute
    /\ mpcd = NoFiller
    /\ \E tuner \in 1 .. Len(TunerObjects) :
          /\ FlagLoop(TunerObjects[tuner], 1, NoFlags) # Raised
          /\ python_tuner = [m_tuner |-> tuner,
                             m_flags |-> FlagLoop(TunerObjects[tuner], 1, NoFlags),
                             set_ok |-> tuner, requested |-> NoFlags, acted |-> <<>>,
                             call |-> "PythonTuner"]

NextTuner ==
    \/ \E tuner \in 1 .. Len(TunerObjects) : setTuner(tuner)
    \/ getRequestedPDataFlags
    \/ \E timestep \in Timesteps : update(timestep)

SpecTuner == InitTuner /\ [][NextTuner]_vars

(***************************************************************************)
(* CosineChannelFiller                                                      *)
(***************************************************************************)
\* the largest number of MPCD particles a rank owns
MaxOwned == 2

\* the largest number of virtual particles held at once
MaxVirtual == 6

\* the local box: L = (6, 1, .), lo = -L / 2
FillBox == [L_x |-> R(6), L_y |-> R(1), lo_x |-> R(-3), lo_y |-> <<-1, 2>>]

\* m_cl->getCellSize() and m_cl->getMaxGridShift()
cell_size == R(1)

max_shift == Half

\* the channels: amplitude, half width at the narrowest point, repetitions
Channels ==
    << [A |-> Zero, h |-> R(1), r |-> R(1)],
       [A |-> Half, h |-> R(2), r |-> R(1)],
       [A |-> R(1), h |-> R(2), r |-> R(1)] >>

\* the densities a filler is constructed with
Densities == {Zero, <<1, 12>>, <<1, 6>>}

\* the seeds and the timesteps of a fill
Seeds == 0 .. 1

FillSteps == 0 .. 1

\* 2 * M_PI, with angles counted in units of pi / 6
TwoPi == R(12)

\* fast::sin, at the multiples of pi / 6 where the sine is rational
fast_sin(a) ==
    LET k == a[1] % 12
    IN  CASE k \in {0, 6} -> Zero
          [] k \in {1, 5} -> Half
          [] k = 3 -> R(1)
          [] k \in {7, 11} -> Neg(Half)
          [] k = 9 -> R(-1)

\* fast::cos
fast_cos(a) == fast_sin(Add(a, R(3)))

\* conversion of a non-negative Scalar to unsigned int
Trunc(a) == a[1] \div a[2]

\* a slot of a particle array that was allocated and never written
Unset == <<>>

\* mpcd::detail::NO_CELL
NO_CELL == "NO_CELL"

\* hoomd::RandomGenerator(CosineChannelFiller, seed, tag, timestep): draw k of
\* the stream, as one of m equally spaced values
Draw(seed, tag, timestep, k, m) == (seed + 3 * tag + 5 * timestep + 7 * k) % m

\* hoomd::UniformDistribution<Scalar>(a, b) on draw k
Uniform(a, b, seed, tag, timestep, k, m) ==
    Add(a, Mul(Sub(b, a), Norm(Draw(seed, tag, timestep, k, m), m)))

\* hoomd::NormalDistribution<Scalar>(sigma, 0) on draw k
Normal(sigma, seed, tag, timestep, k) ==
    Mul(sigma, R(Draw(seed, tag, timestep, k, 3) - 1))

\* CosineChannelFiller::computeNumFill
computeNumFill(f) ==
    LET Area == Mul(FillBox.L_x, FillBox.L_y)
        A == Channels[f.m_geom].A
        h == Channels[f.m_geom].h
        r == Channels[f.m_geom].r
        p == Div(Mul(TwoPi, r), FillBox.L_x)
        thickness == Add(cell_size, Mul(A, fast_sin(Mul(Add(cell_size, max_shift), p))))
    IN  [f EXCEPT !.m_Amplitude = A,
                  !.m_pi_period_div_L = p,
                  !.m_H_narrow = h,
                  !.m_thickness = thickness,
                  !.m_N_fill = Trunc(Mul(Mul(Mul(R(2), f.m_density), Area), thickness))]

\* every particle of the fill on the top wall
TopOnly(i, N_half) == 1

\* signed char sign = (i >= N_half) - (i < N_half)
WallSign(i, N_half) == (IF i >= N_half THEN 1 ELSE 0) - (IF i < N_half THEN 1 ELSE 0)

\* index to start filling from
FirstIdx(f) == f.N + f.N_virtual - f.m_N_fill

\* the body of the loop of drawParticles for particle i
DrawParticle(f, timestep, i) ==
    LET N_half == f.m_N_fill \div 2
        vel_factor == R(1)
        tag == f.m_first_tag + i
        sign == WallSign(i, N_half)
        x == Uniform(FillBox.lo_x, Add(FillBox.lo_x, FillBox.L_x), f.m_seed, tag, timestep, 0, 6)
        y == Uniform(FillBox.lo_y, Add(FillBox.lo_y, FillBox.L_y), f.m_seed, tag, timestep, 1, 2)
        z0 == Uniform(Zero, Mul(R(sign), f.m_thickness), f.m_seed, tag, timestep, 2, 2)
        z == Add(z0, Add(Mul(f.m_Amplitude, fast_cos(Mul(x, f.m_pi_period_div_L))),
                         Mul(R(sign), f.m_H_narrow)))
        pidx == FirstIdx(f) + i
        vel == [k \in 1 .. 3 |-> Normal(vel_factor, f.m_seed, tag, timestep, 2 + k)]
    IN  [f EXCEPT !.h_pos[pidx + 1] = <<x, y, z, f.m_type>>,
                  !.h_vel[pidx + 1] = <<vel[1], vel[2], vel[3], NO_CELL>>,
                  !.h_tag[pidx + 1] = tag,
                  !.written = [pos |-> @.pos \cup {pidx}, vel |-> @.vel \cup {pidx},
                               tag |-> @.tag \cup {pidx}]]

\* for (unsigned int i = 0; i < m_N_fill; ++i), from particle i on
RECURSIVE DrawLoop(_, _, _)
DrawLoop(f, timestep, i) ==
    IF i >= f.m_N_fill THEN f ELSE DrawLoop(DrawParticle(f, timestep, i), timestep, i + 1)

NothingWritten == [pos |-> {}, vel |-> {}, tag |-> {}]

\* CosineChannelFiller::drawParticles
drawParticles(f, timestep) == DrawLoop([f EXCEPT !.written = NothingWritten], timestep, 0)

\* mpcd::ParticleData::addVirtualParticles(n): n more slots at the end of
\* every array
addVirtualParticles(f, n) ==
    [f EXCEPT !.N_virtual = @ + n,
              !.h_pos = @ \o [k \in 1 .. n |-> Unset],
              !.h_vel = @ \o [k \in 1 .. n |-> Unset],
              !.h_tag = @ \o [k \in 1 .. n |-> Unset]]

\* ManualVirtualParticleFiller::fill: computeNumFill, the first tag after all
\* the tags in use, addVirtualParticles(m_N_fill), drawParticles
fill(timestep) ==
    /\ mpcd # NoFiller
    /\ \E f \in {computeNumFill(mpcd)} :
          /\ mpcd.N_virtual + f.m_N_fill <= MaxVirtual
          /\ mpcd' = [drawParticles(addVirtualParticles(
                          [f EXCEPT !.m_first_tag = f.N + f.N_virtual], f.m_N_fill), timestep)
                      EXCEPT !.call = "fill"]
    /\ UNCHANGED <<md, python_tuner>>

\* mpcd::ParticleData::removeVirtualParticles
removeVirtualParticles ==
    /\ mpcd # NoFiller
    /\ mpcd.N_virtual > 0
    /\ mpcd' = [mpcd EXCEPT !.N_virtual = 0,
                            !.h_pos = SubSeq(@, 1, mpcd.N),
                            !.h_vel = SubSeq(@, 1, mpcd.N),
                            !.h_tag = SubSeq(@, 1, mpcd.N),
                            !.written = NothingWritten,
                            !.call = "removeVirtualParticles"]
    /\ UNCHANGED <<md, python_tuner>>

\* a filler constructed over N owned particles, which hold the tags 0 .. N - 1
InitFiller ==
    /\ NoCompute
    /\ python_tuner = NoTuner
    /\ \E N \in 0 .. MaxOwned, geom \in 1 .. Len(Channels), density \in Densities,
          seed \in Seeds :
          mpcd = [N |-> N, N_virtual |-> 0,
                  h_pos |-> [k \in 1 .. N |-> <<Zero, Zero, Zero, 0>>],
                  h_vel |-> [k \in 1 .. N |-> <<Zero, Zero, Zero, NO_CELL>>],
                  h_tag |-> [k \in 1 .. N |-> k - 1],
                  m_geom |-> geom, m_density |-> density, m_seed |-> seed, m_type |-> 0,
                  m_N_fill |-> 0, m_first_tag |-> 0, m_thickness |-> Zero,
                  m_Amplitude |-> Zero, m_pi_period_div_L |-> Zero, m_H_narrow |-> Zero,
                  written |-> NothingWritten, call |-> "CosineChannelFiller"]

NextFiller ==
    \/ \E timestep \in FillSteps : fill(timestep)
    \/ removeVirtualParticles

SpecFiller == InitFiller /\ [][NextFiller]_vars

(***************************************************************************)
(* Reference quantities the properties are stated with                      *)
(***************************************************************************)
Zero4 == <<Zero, Zero, Zero, Zero>>

HostVariant == variant \in {"mesh", "triangle"}

\* a host computeForces call has just returned
AfterHostCompute == HostVariant /\ last_call = "computeForces"

\* sum of the Scalars F(x) over the elements x of a finite set S
RECURSIVE SumOver(_, _)
SumOver(F(_), S) ==
    IF S = {} THEN Zero
    ELSE LET x == CHOOSE y \in S : TRUE
         IN  Add(F(x), SumOver(F, S \ {x}))

Square(a) == Mul(a, a)

\* position of the particle with a tag
TagPos(t) == V3(pos[t][1], pos[t][2], pos[t][3])

Cross(u, v) ==
    << Sub(Mul(u[2], v[3]), Mul(u[3], v[2])),
       Sub(Mul(u[3], v[1]), Mul(u[1], v[3])),
       Sub(Mul(u[1], v[2]), Mul(u[2], v[1])) >>

HalfNorm(u) == Mul(Half, Sqrt(Dot(u, u)))

\* the area of a triangle at the current positions: half the length of the
\* cross product of two of its edges
TriangleArea(tri) ==
    HalfNorm(Cross(minImage(VSub(TagPos(tri.tag[2]), TagPos(tri.tag[1]))),
                   minImage(VSub(TagPos(tri.tag[3]), TagPos(tri.tag[1])))))

\* the sum of the areas of the triangles of the mesh that count as type t
AreaOfType(t) ==
    SumOver(LAMBDA i : TriangleArea(triangles[i]),
            {i \in 1 .. Len(triangles) : MeshType(triangles[i]) = t})

\* the local triangles of rank r that have the vertex with local index idx
Incident(r, idx) ==
    {i \in 1 .. Len(LocalTriangles(r)) :
        \E k \in 1 .. 3 : TriIdx(r, LocalTriangles(r)[i])[k] = idx}

\* the local triangles of rank r with an owned and a ghost vertex
SplitTriangles(r) ==
    {i \in 1 .. Len(LocalTriangles(r)) :
        \E k, l \in 1 .. 3 : /\ IsOwnedIdx(r, TriIdx(r, LocalTriangles(r)[i])[k])
                             /\ TriIdx(r, LocalTriangles(r)[i])[l] >= getN(r)}

Force3(f) == <<f[1], f[2], f[3]>>

SomeForceNonzero == \E r \in Ranks : \E idx \in LocalIdx(r) : Force3(m_force[r][idx]) # Force3(Zero4)

SomeEnergyNonzero == \E r \in Ranks : \E idx \in LocalIdx(r) : m_force[r][idx][4] # Zero

SomeVirialNonzero == \E r \in Ranks : \E k \in DOMAIN m_virial[r] : m_virial[r][k] # Zero

\* the outcome of the host computeForces of the variant in the current state
HostResult(cv) == IF variant = "mesh" THEN MeshResult(cv) ELSE TriangleResult(cv)

SameBuffers(res) == m_force = res.force /\ m_virial = res.virial

(***************************************************************************)
(* C1: on the host path of both variants the force, energy and virial       *)
(* buffers after computeForces depend only on the inputs of that call:      *)
(* whatever the buffers held before and whatever calls came earlier, a      *)
(* second computeForces on unchanged inputs leaves the buffers as the       *)
(* first call left them (nothing is accumulated across calls).              *)
(***************************************************************************)
C1_ComputeIsIdempotent ==
    AfterHostCompute => SameBuffers(HostResult(compute_virial))

C1_Witness ==
    AfterHostCompute /\ SomeForceNonzero /\ SomeEnergyNonzero /\ SomeVirialNonzero

(***************************************************************************)
(* C2: after a host computeForces of either variant every ghost slot        *)
(* (local index >= owned count) holds zero force, zero energy and zero      *)
(* virial, on every rank and for every mesh.                                *)
(***************************************************************************)
C2_GhostSlotsZero ==
    AfterHostCompute =>
        \A r \in Ranks : \A idx \in LocalIdx(r) :
            idx >= getN(r) =>
                /\ m_force[r][idx] = Zero4
                /\ \A j \in 0 .. 5 : m_virial[r][j * virial_pitch(r) + idx] = Zero

\* some rank holds a triangle with a ghost vertex and an owned vertex, and
\* the call wrote a force and a virial
C2_Witness ==
    /\ AfterHostCompute
    /\ compute_virial
    /\ \E r \in Ranks : \E i \in SplitTriangles(r) :
          \E k \in 1 .. 3 :
              LET idx == TriIdx(r, LocalTriangles(r)[i])[k]
              IN  /\ IsOwnedIdx(r, idx)
                  /\ Force3(m_force[r][idx]) # Force3(Zero4)
                  /\ m_virial[r][idx] # Zero

(***************************************************************************)
(* C3: for a mesh of one triangle whose three vertices are all owned, the   *)
(* three force vectors written by computeForces sum to the zero vector in   *)
(* both variants: vertex a holds Fab + Fac, vertex b holds -Fab and vertex  *)
(* c holds -Fac, so a holds the negative sum of the other two.              *)
(***************************************************************************)
IsolatedOwnedTriangle == nranks = 1 /\ Len(triangles) = 1

IsFiniteForce(f) == IsFinite(f[1]) /\ IsFinite(f[2]) /\ IsFinite(f[3])

ForcesBalance(fa, fb, fc) ==
    (IsFiniteForce(fa) /\ IsFiniteForce(fb) /\ IsFiniteForce(fc)) =>
        /\ VAdd(VAdd(fa, fb), fc) = Force3(Zero4)
        /\ fa = VNeg(VAdd(fb, fc))

\* the prefactor the host loop of the variant uses for a triangle held by
\* rank 0, after the call
HostPrefactor(tri) ==
    IF variant = "mesh"
    THEN MeshPrefactor(m_K[MeshType(tri)], m_A0[MeshType(tri)], m_area[MeshType(tri)])
    ELSE TriPrefactor(m_K[tri.type], m_A0[tri.type],
                      TriUt(ForceGeometry(0, tri), m_A0[tri.type]))

EdgeForcesWritten(fa, fb, fc, Fab, Fac) ==
    fa = VAdd(Fab, Fac) /\ fb = VNeg(Fab) /\ fc = VNeg(Fac)

C3_IsolatedTriangleForcesSumToZero ==
    (AfterHostCompute /\ IsolatedOwnedTriangle) =>
        /\ ForcesBalance(Force3(m_force[0][TriIdx(0, triangles[1])[1]]),
                         Force3(m_force[0][TriIdx(0, triangles[1])[2]]),
                         Force3(m_force[0][TriIdx(0, triangles[1])[3]]))
        /\ EdgeForcesWritten(Force3(m_force[0][TriIdx(0, triangles[1])[1]]),
                             Force3(m_force[0][TriIdx(0, triangles[1])[2]]),
                             Force3(m_force[0][TriIdx(0, triangles[1])[3]]),
                             EdgeForceAB(HostPrefactor(triangles[1]),
                                         ForceGeometry(0, triangles[1])),
                             EdgeForceAC(HostPrefactor(triangles[1]),
                                         ForceGeometry(0, triangles[1])))

C3_Witness ==
    /\ AfterHostCompute
    /\ IsolatedOwnedTriangle
    /\ \A k \in 1 .. 3 :
          /\ IsFiniteForce(m_force[0][TriIdx(0, triangles[1])[k]])
          /\ Force3(m_force[0][TriIdx(0, triangles[1])[k]]) # Force3(Zero4)

(***************************************************************************)
(* C4: in the whole-mesh variant every computeForces call, on the host and  *)
(* on the accelerator path alike, recomputes area[type] from the current    *)
(* positions, so that after the call getArea(type) is the sum of the areas  *)
(* of the triangles of that type at the positions of that call.             *)
(***************************************************************************)
C4_AreaRecomputedByEveryCall ==
    (variant \in {"mesh", "gpu"} /\ last_call = "computeForces") =>
        \A t \in DOMAIN m_area : m_area[t] = AreaOfType(t)

(***************************************************************************)
(* C5: area aggregation does not depend on vertex ownership: for every      *)
(* number of ranks and every partition of the vertices, one third of a      *)
(* triangle's area per owned vertex, summed over the ranks, gives for       *)
(* every type the area[type] of the single-rank computation, the sum of the *)
(* full areas of the triangles of that type.                                *)
(***************************************************************************)
C5_AreaInvariantToOwnership ==
    (variant = "mesh" /\ last_call = "computeForces") =>
        \A t \in 0 .. AllocTypes - 1 : m_area[t] = AreaOfType(t)

\* more than one rank, and a rank that owns only part of a triangle
C5_Witness ==
    /\ variant = "mesh"
    /\ last_call = "computeForces"
    /\ getDomainDecomposition
    /\ \E r \in Ranks : SplitTriangles(r) # {}
    /\ \A t \in 0 .. AllocTypes - 1 : Gt(m_area[t], Zero)

(***************************************************************************)
(* C6: in the whole-mesh variant without type collapse each owned vertex    *)
(* of each triangle of type t receives the energy                           *)
(* K[t]*(area[t]-A0[t])^2 / (6*A0[t]*N_t), N_t the number of triangles of   *)
(* type t in the mesh; when all vertices are owned the energies given by    *)
(* the triangles of type t sum to K[t]*(area[t]-A0[t])^2 / (2*A0[t]).       *)
(***************************************************************************)
\* the number of triangles of the mesh of type t
TypeCount(t) == Cardinality({i \in 1 .. Len(triangles) : triangles[i].type = t})

\* K[t]*(area[t]-A0[t])^2 / (6*A0[t]*n)
MeshVertexEnergy(t, n) ==
    Div(Mul(m_K[t], Square(Sub(m_area[t], m_A0[t]))), Mul(Mul(R(6), m_A0[t]), R(n)))

\* K[t]*(area[t]-A0[t])^2 / (2*A0[t])
MeshTypeEnergy(t) ==
    Div(Mul(m_K[t], Square(Sub(m_area[t], m_A0[t]))), Mul(R(2), m_A0[t]))

\* the sum of the energy entries of all slots of rank r
EnergyOfRank(r) == SumOver(LAMBDA idx : m_force[r][idx][4], LocalIdx(r))

C6_MeshEnergyPerVertex ==
    (variant = "mesh" /\ ~m_ignore_type /\ last_call = "computeForces") =>
        /\ \A r \in Ranks : \A idx \in 0 .. getN(r) - 1 :
              m_force[r][idx][4] =
                  SumOver(LAMBDA i : MeshVertexEnergy(LocalTriangles(r)[i].type,
                                                      TypeCount(LocalTriangles(r)[i].type)),
                          Incident(r, idx))
        /\ nranks = 1 =>
              EnergyOfRank(0) = SumOver(LAMBDA t : MeshTypeEnergy(t),
                                        {t \in 0 .. getNTypes - 1 : TypeCount(t) > 0})

\* two triangles of different types share an owned vertex that got energy
\* from at least one of them
C6_Witness ==
    /\ variant = "mesh"
    /\ ~m_ignore_type
    /\ last_call = "computeForces"
    /\ \E r \in Ranks : \E idx \in 0 .. getN(r) - 1 :
          /\ m_force[r][idx][4] # Zero
          /\ \E i, j \in Incident(r, idx) :
                LocalTriangles(r)[i].type # LocalTriangles(r)[j].type

(***************************************************************************)
(* C7 as stated: in the whole-mesh variant under single-type collapse the   *)
(* normalisation count N_active in the per-vertex energy                    *)
(* K*(area[0]-A0[0])^2 / (6*A0[0]*N_active) is 1, for every triangle and    *)
(* every mesh size.                                                         *)
(***************************************************************************)
C7_CollapseCountIsOne ==
    (variant = "mesh" /\ m_ignore_type /\ last_call = "computeForces") =>
        \A r \in Ranks : \A idx \in 0 .. getN(r) - 1 :
            m_force[r][idx][4] =
                SumOver(LAMBDA i : MeshVertexEnergy(0, 1), Incident(r, idx))

(***************************************************************************)
(* C7 amended: in the whole-mesh variant under single-type collapse the     *)
(* normalisation count N_active in the per-vertex energy                    *)
(* K*(area[0]-A0[0])^2 / (6*A0[0]*N_active) is the number of triangles of   *)
(* the whole mesh; it is 1 only for a mesh of one triangle.                 *)
(***************************************************************************)
C7_CollapseCountIsMeshSize ==
    (variant = "mesh" /\ m_ignore_type /\ last_call = "computeForces") =>
        \A r \in Ranks : \A idx \in 0 .. getN(r) - 1 :
            m_force[r][idx][4] =
                SumOver(LAMBDA i : MeshVertexEnergy(0, Len(triangles)), Incident(r, idx))

\* a collapsed mesh of more than one triangle whose vertices got energy
C7_Witness ==
    /\ variant = "mesh"
    /\ m_ignore_type
    /\ last_call = "computeForces"
    /\ Len(triangles) > 1
    /\ \E r \in Ranks : \E idx \in 0 .. getN(r) - 1 :
          Incident(r, idx) # {} /\ m_force[r][idx][4] # Zero

(***************************************************************************)
(* C8: in the per-triangle variant each owned vertex of a triangle of type  *)
(* t with area A receives the energy K[t]/(6*A0[t])*(A-A0[t])^2; when all   *)
(* vertices are owned the three contributions of a triangle sum to          *)
(* K[t]/(2*A0[t])*(A-A0[t])^2.                                              *)
(***************************************************************************)
\* K/(6*A0)*(A-A0)^2 of a triangle
TriVertexEnergy(tri) ==
    Mul(Div(m_K[tri.type], Mul(R(6), m_A0[tri.type])),
        Square(Sub(TriangleArea(tri), m_A0[tri.type])))

\* K/(2*A0)*(A-A0)^2 of a triangle
TriTotalEnergy(tri) ==
    Mul(Div(m_K[tri.type], Mul(R(2), m_A0[tri.type])),
        Square(Sub(TriangleArea(tri), m_A0[tri.type])))

C8_TriangleEnergyPerVertex ==
    (variant = "triangle" /\ last_call = "computeForces") =>
        /\ \A r \in Ranks : \A idx \in 0 .. getN(r) - 1 :
              m_force[r][idx][4] =
                  SumOver(LAMBDA i : TriVertexEnergy(LocalTriangles(r)[i]), Incident(r, idx))
        /\ nranks = 1 =>
              EnergyOfRank(0) = SumOver(LAMBDA i : TriTotalEnergy(triangles[i]),
                                        1 .. Len(triangles))

\* a triangle with its three vertices owned by one rank, away from its
\* target area
C8_Witness ==
    /\ variant = "triangle"
    /\ last_call = "computeForces"
    /\ \E r \in Ranks : \E i \in 1 .. Len(LocalTriangles(r)) :
          /\ \A k \in 1 .. 3 : IsOwnedIdx(r, TriIdx(r, LocalTriangles(r)[i])[k])
          /\ TriVertexEnergy(LocalTriangles(r)[i]) # Zero
          /\ m_force[r][TriIdx(r, LocalTriangles(r)[i])[1]][4] # Zero

(***************************************************************************)
(* C9: in the whole-mesh variant, when the aggregate area of a type equals  *)
(* its target A0, computeForces writes zero force and zero energy for       *)
(* every non-degenerate triangle of that type: a vertex all of whose        *)
(* triangles are of such types holds zero force and zero energy.            *)
(***************************************************************************)
NonDegenerate(tri) == Gt(TriangleArea(tri), Zero)

\* the local triangle i of rank r is non-degenerate and of a type at its target
AtTarget(r, i) ==
    /\ NonDegenerate(LocalTriangles(r)[i])
    /\ m_area[MeshType(LocalTriangles(r)[i])] = m_A0[MeshType(LocalTriangles(r)[i])]

C9_ZeroForceAtTargetArea ==
    (variant = "mesh" /\ last_call = "computeForces") =>
        \A r \in Ranks : \A idx \in 0 .. getN(r) - 1 :
            (\A i \in Incident(r, idx) : AtTarget(r, i)) => m_force[r][idx] = Zero4

\* a type at its target area with a triangle on an owned vertex, its
\* stiffness not zero
C9_Witness ==
    /\ variant = "mesh"
    /\ last_call = "computeForces"
    /\ \E r \in Ranks : \E idx \in 0 .. getN(r) - 1 :
          /\ Incident(r, idx) # {}
          /\ \A i \in Incident(r, idx) :
                AtTarget(r, i) /\ m_K[MeshType(LocalTriangles(r)[i])] # Zero

(***************************************************************************)
(* C10: virial contributions are accumulated only when the compute-virial   *)
(* flag is on: with the flag off every entry of the virial buffer is zero   *)
(* after computeForces in both variants, while the forces and energies      *)
(* are those computed with the flag on.                                     *)
(***************************************************************************)
C10_NoVirialWithoutFlag ==
    (AfterHostCompute /\ ~compute_virial) =>
        /\ \A r \in Ranks : \A k \in DOMAIN m_virial[r] : m_virial[r][k] = Zero
        /\ m_force = HostResult(TRUE).force

\* the flag is off, forces were written, and with the flag on the same call
\* writes a virial
C10_Witness ==
    /\ AfterHostCompute
    /\ ~compute_virial
    /\ SomeForceNonzero
    /\ \E r \in Ranks : \E k \in DOMAIN m_virial[r] : HostResult(TRUE).virial[r][k] # Zero

(***************************************************************************)
(* C11: in collapse-to-single-type mode of the whole-mesh variant every     *)
(* triangle is treated as type 0 whatever its stored type: after            *)
(* computeForces area[0] is the sum of the areas of all triangles of the    *)
(* mesh, and the force and the energy of every owned vertex are those its   *)
(* triangles give with K[0], A0[0] and area[0].                             *)
(***************************************************************************)
\* the force a triangle gives its vertex with local index idx under the
\* prefactor pre: Fab + Fac to vertex a, -Fab to b, -Fac to c
VertexForce(r, tri, idx, pre) ==
    IF TriIdx(r, tri)[1] = idx
    THEN VAdd(EdgeForceAB(pre, ForceGeometry(r, tri)), EdgeForceAC(pre, ForceGeometry(r, tri)))
    ELSE IF TriIdx(r, tri)[2] = idx
    THEN VNeg(EdgeForceAB(pre, ForceGeometry(r, tri)))
    ELSE VNeg(EdgeForceAC(pre, ForceGeometry(r, tri)))

\* the sum of the areas of all triangles of the mesh
WholeMeshArea == SumOver(LAMBDA i : TriangleArea(triangles[i]), 1 .. Len(triangles))

C11_CollapseUsesTypeZero ==
    (variant = "mesh" /\ m_ignore_type /\ last_call = "computeForces") =>
        /\ m_area[0] = WholeMeshArea
        /\ \A r \in Ranks : \A idx \in 0 .. getN(r) - 1 :
              /\ \A c \in 1 .. 3 :
                    m_force[r][idx][c] =
                        SumOver(LAMBDA i : VertexForce(r, LocalTriangles(r)[i], idx,
                                               MeshPrefactor(m_K[0], m_A0[0], m_area[0]))[c],
                                Incident(r, idx))
              /\ m_force[r][idx][4] =
                    SumOver(LAMBDA i : MeshEnergy(m_K[0], m_A0[0], m_area[0], getSize),
                            Incident(r, idx))

\* a collapsed mesh with a triangle of stored type 1 on an owned vertex that
\* got a force
C11_Witness ==
    /\ variant = "mesh"
    /\ m_ignore_type
    /\ last_call = "computeForces"
    /\ \E r \in Ranks : \E idx \in 0 .. getN(r) - 1 :
          /\ \E i \in Incident(r, idx) : LocalTriangles(r)[i].type = 1
          /\ Force3(m_force[r][idx]) # Force3(Zero4)
          /\ IsFiniteForce(m_force[r][idx])

(***************************************************************************)
(* C12 as stated: parameters round-trip through the store: for every valid  *)
(* type T and every K, A0, setParams(T, K, A0) makes getParams(T) return    *)
(* exactly {K, A0}, and a setParams on another type leaves what             *)
(* getParams(T) returns unchanged; in both variants, collapse-to-single-    *)
(* type mode included.                                                      *)
(***************************************************************************)
C12_ParamsRoundTrip ==
    [][\A type \in 0 .. getNTypes - 1 : \A v \in 1 .. Len(ParamVals) :
          setParams(type, ParamVals[v][1], ParamVals[v][2]) =>
              /\ ParamsOf(type)' = [k |-> ParamVals[v][1], A0 |-> ParamVals[v][2]]
              /\ \A other \in 0 .. getNTypes - 1 :
                    other # type => ParamsOf(other)' = ParamsOf(other)]_vars

(***************************************************************************)
(* C12 amended: parameters round-trip per stored record.  Without collapse, *)
(* in both variants, setParams(T, K, A0) makes getParams(T) return exactly  *)
(* {K, A0} and leaves what getParams returns for every other type           *)
(* unchanged.  In collapse-to-single-type mode there is one record:         *)
(* setParams(0, K, A0) stores it, setParams(T, K, A0) with T # 0 stores     *)
(* nothing, and getParams(T) returns the record of type 0 for every T.      *)
(***************************************************************************)
Collapsed == variant = "mesh" /\ m_ignore_type

C12_RoundTripPerRecord ==
    [][\A type \in 0 .. getNTypes - 1 : \A v \in 1 .. Len(ParamVals) :
          setParams(type, ParamVals[v][1], ParamVals[v][2]) =>
              /\ (~Collapsed \/ type = 0) =>
                    ParamsOf(type)' = [k |-> ParamVals[v][1], A0 |-> ParamVals[v][2]]
              /\ (Collapsed /\ type # 0) => ParamsOf(type)' = ParamsOf(type)
              /\ \A other \in 0 .. getNTypes - 1 :
                    IF Collapsed THEN ParamsOf(other)' = ParamsOf(0)'
                    ELSE other # type => ParamsOf(other)' = ParamsOf(other)]_vars

\* setParams has just stored different records for the two types
C12_Witness ==
    /\ HostVariant
    /\ ~Collapsed
    /\ last_call = "setParams"
    /\ ParamsOf(0) = [k |-> ParamVals[2][1], A0 |-> ParamVals[2][2]]
    /\ ParamsOf(1) = [k |-> ParamVals[1][1], A0 |-> ParamVals[1][2]]

(***************************************************************************)
(* C13: setParams and getParams called with a type that is no valid mesh    *)
(* type (an unknown name, or an id >= the type count) raise an invalid-type *)
(* error at the call site and leave every stored K and A0 unchanged: no     *)
(* parameter slot is read or written for such a type.                       *)
(***************************************************************************)
C13_InvalidTypeRaises ==
    [][/\ \A v \in 1 .. Len(ParamVals) :
             setParams(getNTypes, ParamVals[v][1], ParamVals[v][2]) =>
                 /\ last_call' = "throw"
                 /\ UNCHANGED <<m_K, m_A0, m_K_overrun>>
       /\ getParams("none") =>
             /\ last_call' = "throw"
             /\ UNCHANGED <<m_K, m_A0, m_K_overrun, returned>>]_vars

(***************************************************************************)
(* C14 as stated: setParams with K <= 0 or A0 <= 0 only warns: it does not  *)
(* raise and it stores K and A0 exactly as given, so that getParams of the  *)
(* type returns them, for every type and in every mode.                     *)
(***************************************************************************)
C14_NonPositiveStoredAsGiven ==
    [][\A type \in 0 .. getNTypes - 1 : \A v \in 1 .. Len(DegenerateVals) :
          setParams(type, DegenerateVals[v][1], DegenerateVals[v][2]) =>
              /\ last_call' = "setParams"
              /\ ParamsOf(type)' = [k |-> DegenerateVals[v][1], A0 |-> DegenerateVals[v][2]]]_vars

(***************************************************************************)
(* C14 amended: setParams with K <= 0 or A0 <= 0 never raises.  Where       *)
(* setParams stores at all (every type without collapse, type 0 under       *)
(* collapse) it stores K and A0 exactly as given, without clamping, and     *)
(* later computeForces calls give every owned vertex the energy of its      *)
(* triangles computed from the stored values; under collapse a setParams    *)
(* on a type other than 0 stores nothing, whatever the values.              *)
(***************************************************************************)
\* the stiffness or the target area of the triangle's type is not positive
NonPositiveParams(tri) ==
    \/ Le(m_K[ParamSlot(tri.type)], Zero)
    \/ Le(m_A0[ParamSlot(tri.type)], Zero)

\* every owned vertex holds the energy its triangles give with the stored
\* parameters, in each of the three modes
EnergiesFromStoredParams ==
    /\ C6_MeshEnergyPerVertex
    /\ C7_CollapseCountIsMeshSize
    /\ C8_TriangleEnergyPerVertex

C14_NonPositiveStoredWhereStored ==
    /\ [][\A type \in 0 .. getNTypes - 1 : \A v \in 1 .. Len(DegenerateVals) :
             setParams(type, DegenerateVals[v][1], DegenerateVals[v][2]) =>
                 /\ last_call' = "setParams"
                 /\ (~Collapsed \/ type = 0) =>
                       /\ m_K'[type] = DegenerateVals[v][1]
                       /\ m_A0'[type] = DegenerateVals[v][2]
                 /\ (Collapsed /\ type # 0) => UNCHANGED <<m_K, m_A0>>]_vars
    /\ []((AfterHostCompute /\ \E i \in 1 .. Len(triangles) : NonPositiveParams(triangles[i]))
             => EnergiesFromStoredParams)

\* computeForces has run with a stiffness or target area that is not
\* positive and gave a vertex a negative energy
C14_Witness ==
    /\ AfterHostCompute
    /\ \E i \in 1 .. Len(triangles) : NonPositiveParams(triangles[i])
    /\ \E idx \in LocalIdx(0) : Lt(m_force[0][idx][4], Zero)

(***************************************************************************)
(* C15: for every K <= 0 or A0 <= 0, A0 = 0 included, and non-degenerate    *)
(* triangles, computeForces produces finite forces and energies: there is   *)
(* no division by zero in the energy or in the force prefactor.             *)
(***************************************************************************)
C15_FiniteWithNonPositiveParams ==
    (AfterHostCompute /\ \A i \in 1 .. Len(triangles) : NonDegenerate(triangles[i])) =>
        \A r \in Ranks : \A idx \in LocalIdx(r) : \A c \in 1 .. 4 :
            IsFinite(m_force[r][idx][c])

\* the same for target areas other than zero
C15_FiniteWithNonZeroTarget ==
    (AfterHostCompute /\ \A i \in 1 .. Len(triangles) : NonDegenerate(triangles[i])
                      /\ \A t \in DOMAIN m_A0 : m_A0[t] # Zero) =>
        \A r \in Ranks : \A idx \in LocalIdx(r) : \A c \in 1 .. 4 :
            IsFinite(m_force[r][idx][c])

(***************************************************************************)
(* C16: on the host path a triangle whose tag resolves to a local index     *)
(* outside [0, owned_count + ghost_count) makes that computeForces call     *)
(* (area precompute included) fail fatally at once: the call never returns  *)
(* normally from a loop over such a triangle, so no position is read at     *)
(* the out-of-range index.                                                  *)
(***************************************************************************)
C16_HostFaultIsFatal ==
    (HostVariant /\ \E r \in Ranks : OutOfBounds(r)) => last_call # "computeForces"

\* the same in a build that keeps the asserts
C16_AssertingBuildAborts ==
    (HostVariant /\ ~ndebug /\ \E r \in Ranks : OutOfBounds(r)) => last_call # "computeForces"

(***************************************************************************)
(* C17: on the accelerator path a computeForces call raises the fatal       *)
(* topology error exactly when strict checking is enabled and bit 0 of the  *)
(* ErrorFlag read back after the launch is set; with checking off, or with  *)
(* bit 0 clear, the call returns normally.                                  *)
(***************************************************************************)
C17_RaisesIffCheckedAndFlagged ==
    (variant = "gpu" /\ last_call \in {"computeForces", "throw"})
        => (last_call = "throw" <=> (error_checking /\ m_flags % 2 = 1))

\* a checked call over a faulty topology has raised
C17_Witness ==
    /\ variant = "gpu"
    /\ last_call = "throw"
    /\ error_checking
    /\ m_flags % 2 = 1
    /\ \E r \in Ranks : OutOfBounds(r)

\* an unchecked call over a faulty topology returns with the flag set
C17_SilentFault ==
    /\ variant = "gpu"
    /\ last_call = "computeForces"
    /\ ~error_checking
    /\ m_flags % 2 = 1

(***************************************************************************)
(* C18: the ErrorFlag is reset before each launch: what is read back after  *)
(* a launch tells of that launch alone, so after a call over a topology     *)
(* with every index in range the flag is zero and the call has not raised.  *)
(***************************************************************************)
C18_FlagResetBeforeLaunch ==
    (variant = "gpu" /\ last_call \in {"computeForces", "throw"}
                     /\ ~\E r \in Ranks : OutOfBounds(r))
        => (m_flags = 0 /\ last_call # "throw")

\* the flag is zero as long as no launch has met a fault
C18_FlagSetOnlyByFault ==
    [][(m_flags = 0 /\ m_flags' # 0) => \E r \in Ranks : OutOfBounds(r)]_vars

(***************************************************************************)
(* C19: the device-resident parameter table is kept in sync with the host   *)
(* parameters: setParams on the accelerator compute leaves the device       *)
(* record of the type equal to the (K, A0) just stored on the host, and     *)
(* no operation lets a record in sync fall out of sync.                     *)
(***************************************************************************)
InSync(t) == m_params[t] = <<m_K[t], m_A0[t]>>

C19_DeviceParamsInSync ==
    [][/\ \A type \in 0 .. getNTypes - 1 : \A k \in 1 .. Len(ParamVals) :
             GPUsetParams(type, ParamVals[k][1], ParamVals[k][2])
                 => /\ m_params'[type] = <<ParamVals[k][1], ParamVals[k][2]>>
                    /\ InSync(type)'
       /\ \A t \in 0 .. getNTypes - 1 : InSync(t) => InSync(t)']_vars

\* a setParams has just stored a non-zero record for a type on host and device
C19_Witness ==
    /\ variant = "gpu"
    /\ last_call = "setParams"
    /\ \E t \in 0 .. getNTypes - 1 : InSync(t) /\ m_params[t][1] # Zero

(***************************************************************************)
(* C20: for the same mesh, positions and parameters (every type set by      *)
(* setParams) the accelerator computeForces leaves the per-particle forces, *)
(* energies and virials that the host computeForces of the whole-mesh       *)
(* variant would leave, both using the aggregate area of the current        *)
(* positions.                                                               *)
(***************************************************************************)
C20_GPUMatchesHost ==
    (variant = "gpu" /\ last_call = "computeForces" /\ \A t \in 0 .. getNTypes - 1 : InSync(t))
        => /\ m_force = MeshResult(compute_virial).force
           /\ m_virial = MeshResult(compute_virial).virial
           /\ \A t \in 0 .. getNTypes - 1 : m_area[t] = AreaOfType(t)

(***************************************************************************)
(* C22: after every area precompute area[type] >= 0 for every type, for    *)
(* all positions and topologies: each triangle contributes a non-negative   *)
(* area.                                                                    *)
(***************************************************************************)
C22_AreaNonNegative ==
    (variant = "mesh" /\ last_call = "computeForces")
        => \A t \in 0 .. AllocTypes - 1 : Le(Zero, m_area[t])

\* an edge taken from the first vertex of a triangle has length zero
ZeroEdge(tri) ==
    \/ pos[tri.tag[2]] = pos[tri.tag[1]]
    \/ pos[tri.tag[3]] = pos[tri.tag[1]]

\* as long as no such edge exists the areas are non-negative, collinear
\* triangles included
C22_NonNegativeWithoutZeroEdge ==
    (variant = "mesh" /\ last_call = "computeForces"
                      /\ \A i \in 1 .. Len(triangles) : ~ZeroEdge(triangles[i]))
        => \A t \in 0 .. AllocTypes - 1 : Le(Zero, m_area[t])

\* a collinear triangle has been given the area zero
C22_CollinearIsZero ==
    /\ variant = "mesh" /\ ~m_ignore_type /\ last_call = "computeForces"
    /\ m_area[0] = Zero

(***************************************************************************)
(* C23: in the per-triangle variant there is no coupling between            *)
(* triangles: what a triangle adds to the force, energy and virial of its   *)
(* vertices is a function of its own three positions and of K and A0 of     *)
(* its type, so every owned vertex holds the sum of these own contributions *)
(* of its triangles, whatever the other triangles of the mesh are, wherever *)
(* their other vertices lie and whatever the area array holds.              *)
(***************************************************************************)
\* K/(2*A0)*(A - A0) of a triangle, A its own area
OwnPrefactor(tri) ==
    Mul(Div(m_K[tri.type], Mul(R(2), m_A0[tri.type])),
        Sub(TriangleArea(tri), m_A0[tri.type]))

\* the six virial products a triangle gives its vertex with local index idx
VertexVirial(r, tri, idx, pre) ==
    IF TriIdx(r, tri)[1] = idx
    THEN VirialShared(ForceGeometry(r, tri).dab, ForceGeometry(r, tri).dac,
                      EdgeForceAB(pre, ForceGeometry(r, tri)),
                      EdgeForceAC(pre, ForceGeometry(r, tri)))
    ELSE IF TriIdx(r, tri)[2] = idx
    THEN VirialEdge(ForceGeometry(r, tri).dab, EdgeForceAB(pre, ForceGeometry(r, tri)))
    ELSE VirialEdge(ForceGeometry(r, tri).dac, EdgeForceAC(pre, ForceGeometry(r, tri)))

C23_NoCrossTriangleCoupling ==
    (variant = "triangle" /\ last_call = "computeForces") =>
        \A r \in Ranks : \A idx \in 0 .. getN(r) - 1 :
            /\ \A c \in 1 .. 3 :
                  m_force[r][idx][c] =
                      SumOver(LAMBDA i : VertexForce(r, LocalTriangles(r)[i], idx,
                                             OwnPrefactor(LocalTriangles(r)[i]))[c],
                              Incident(r, idx))
            /\ m_force[r][idx][4] =
                  SumOver(LAMBDA i : TriVertexEnergy(LocalTriangles(r)[i]), Incident(r, idx))
            /\ compute_virial =>
                  \A j \in 0 .. 5 :
                      m_virial[r][j * virial_pitch(r) + idx] =
                          SumOver(LAMBDA i : VertexVirial(r, LocalTriangles(r)[i], idx,
                                                 OwnPrefactor(LocalTriangles(r)[i]))[j + 1],
                                  Incident(r, idx))

\* a mesh of two triangles of different types and areas: a vertex that only
\* the first triangle has holds a force and a virial, and the area array
\* holds an area of the other triangle that is not the first one's
C23_Witness ==
    /\ variant = "triangle"
    /\ last_call = "computeForces"
    /\ compute_virial
    /\ Len(triangles) = 2
    /\ TriangleArea(triangles[1]) # TriangleArea(triangles[2])
    /\ m_area[0] # Zero
    /\ \E r \in Ranks : \E idx \in 0 .. getN(r) - 1 :
          /\ Incident(r, idx) # {}
          /\ \A i \in Incident(r, idx) : LocalTriangles(r)[i] = triangles[1]
          /\ Force3(m_force[r][idx]) # Force3(Zero4)
          /\ m_virial[r][idx] # Zero

(***************************************************************************)
(* C24: for a mesh partitioned across ranks, every vertex owned by exactly  *)
(* one rank, what a triangle gives a vertex is written on the owner of the  *)
(* vertex and on no rank that holds it as a ghost; so the owner's slot      *)
(* holds the force and the energy the single-rank computation gives the     *)
(* vertex (no contribution duplicated or lost), in both variants.           *)
(***************************************************************************)
\* the geometry of a triangle from the positions of its tags, no rank involved
TagGeometry(tri) ==
    AngleDerivatives(EdgeAngles(minImage(VSub(TagPos(tri.tag[1]), TagPos(tri.tag[2]))),
                                minImage(VSub(TagPos(tri.tag[1]), TagPos(tri.tag[3])))))

\* the prefactor and the energy per vertex of a triangle in the variant, from
\* the areas at the current positions
TagPrefactor(tri) ==
    IF variant = "mesh"
    THEN MeshPrefactor(m_K[MeshType(tri)], m_A0[MeshType(tri)], AreaOfType(MeshType(tri)))
    ELSE OwnPrefactor(tri)

TagEnergy(tri) ==
    IF variant = "mesh"
    THEN MeshEnergy(m_K[MeshType(tri)], m_A0[MeshType(tri)], AreaOfType(MeshType(tri)),
                    MeshTriN(tri))
    ELSE TriVertexEnergy(tri)

\* force and energy a triangle of the mesh gives the particle with tag t
TagForce(tri, t) ==
    IF tri.tag[1] = t
    THEN VAdd(EdgeForceAB(TagPrefactor(tri), TagGeometry(tri)),
              EdgeForceAC(TagPrefactor(tri), TagGeometry(tri)))
    ELSE IF tri.tag[2] = t
    THEN VNeg(EdgeForceAB(TagPrefactor(tri), TagGeometry(tri)))
    ELSE VNeg(EdgeForceAC(TagPrefactor(tri), TagGeometry(tri)))

\* the triangles of the whole mesh the particle with tag t is a vertex of
TrianglesOfTag(t) == {i \in 1 .. Len(triangles) : \E k \in 1 .. 3 : triangles[i].tag[k] = t}

\* force and energy of the particle with tag t in the computation on one rank
SingleRankForce(t) ==
    << SumOver(LAMBDA i : TagForce(triangles[i], t)[1], TrianglesOfTag(t)),
       SumOver(LAMBDA i : TagForce(triangles[i], t)[2], TrianglesOfTag(t)),
       SumOver(LAMBDA i : TagForce(triangles[i], t)[3], TrianglesOfTag(t)),
       SumOver(LAMBDA i : TagEnergy(triangles[i]), TrianglesOfTag(t)) >>

\* the ranks that hold the particle with tag t as one of their own
OwnersOf(t) == {r \in Ranks : IsOwnedIdx(r, h_rtag(r, t))}

C24_PartitionNeitherDuplicatesNorLoses ==
    AfterHostCompute =>
        \A t \in Tags :
            /\ Cardinality(OwnersOf(t)) = 1
            /\ \A r \in Ranks :
                  h_rtag(r, t) \in LocalIdx(r) =>
                      m_force[r][h_rtag(r, t)] =
                          (IF r \in OwnersOf(t) THEN SingleRankForce(t) ELSE Zero4)

\* more than one rank, and a particle with triangles that one rank owns and
\* another holds as a ghost got a force and an energy on its owner
C24_Witness ==
    /\ AfterHostCompute
    /\ getDomainDecomposition
    /\ \E t \in Tags : \E r, q \in Ranks :
          /\ r \in OwnersOf(t)
          /\ h_rtag(q, t) \in LocalIdx(q) /\ ~IsOwnedIdx(q, h_rtag(q, t))
          /\ Cardinality(TrianglesOfTag(t)) = 2
          /\ Force3(m_force[r][h_rtag(r, t)]) # Force3(Zero4)
          /\ m_force[r][h_rtag(r, t)][4] # Zero

C26_PrecomputeWritesAllocatedSlots ==
    (variant = "mesh" /\ last_call = "computeForces") => m_area_overrun = {}

\* without the collapse every slot written was allocated
C26_InBoundsWithoutCollapse ==
    (HostVariant /\ ~m_ignore_type) => m_area_overrun = {}

(***************************************************************************)
(* C27: with the compute-virial flag on, for each triangle and each of the  *)
(* six components the virial contribution added to the shared vertex a is   *)
(* the sum of the contributions added to the vertices b and c, in both      *)
(* variants.                                                                *)
(***************************************************************************)
\* the prefactor the host loop of the variant uses for a triangle of rank r
PrefactorOf(r, tri) ==
    IF variant = "mesh"
    THEN MeshPrefactor(m_K[MeshType(tri)], m_A0[MeshType(tri)], m_area[MeshType(tri)])
    ELSE TriPrefactor(m_K[tri.type], m_A0[tri.type],
                      TriUt(ForceGeometry(r, tri), m_A0[tri.type]))

\* the virial entry j of local index idx of rank r
VirialAt(r, j, idx) == m_virial[r][j * virial_pitch(r) + idx]

C27_SharedVertexVirialIsSum ==
    (AfterHostCompute /\ compute_virial) =>
        /\ \A r \in Ranks : \A i \in 1 .. Len(LocalTriangles(r)) : \A j \in 1 .. 6 :
              VertexVirial(r, LocalTriangles(r)[i], TriIdx(r, LocalTriangles(r)[i])[1],
                           PrefactorOf(r, LocalTriangles(r)[i]))[j] =
                  Add(VertexVirial(r, LocalTriangles(r)[i], TriIdx(r, LocalTriangles(r)[i])[2],
                                   PrefactorOf(r, LocalTriangles(r)[i]))[j],
                      VertexVirial(r, LocalTriangles(r)[i], TriIdx(r, LocalTriangles(r)[i])[3],
                                   PrefactorOf(r, LocalTriangles(r)[i]))[j])
        /\ IsolatedOwnedTriangle =>
              \A j \in 0 .. 5 :
                  VirialAt(0, j, TriIdx(0, triangles[1])[1]) =
                      Add(VirialAt(0, j, TriIdx(0, triangles[1])[2]),
                          VirialAt(0, j, TriIdx(0, triangles[1])[3]))

\* one triangle, all vertices owned, each of the three vertices holding a
\* virial in some component
C27_Witness ==
    /\ AfterHostCompute
    /\ compute_virial
    /\ IsolatedOwnedTriangle
    /\ \A k \in 2 .. 3 : \E j \in 0 .. 5 :
          /\ VirialAt(0, j, TriIdx(0, triangles[1])[k]) # Zero
          /\ VirialAt(0, j, TriIdx(0, triangles[1])[1]) # Zero

(***************************************************************************)
(* C28: in collapse-to-single-type mode of the whole-mesh host compute,     *)
(* setParams(type, K, A0) with type # 0 is a no-op: it changes no stored K  *)
(* or A0 and logs no warning, also for K <= 0 or A0 <= 0; only setParams    *)
(* with type 0 changes the parameters computeForces uses.                   *)
(***************************************************************************)
C28_CollapsedOtherTypeIsNoOp ==
    [][/\ \A type \in 1 .. getNTypes - 1 : \A v \in 1 .. Len(DegenerateVals) :
             (Collapsed /\ setParams(type, DegenerateVals[v][1], DegenerateVals[v][2]))
                 => /\ UNCHANGED <<m_K, m_A0, m_area, m_K_overrun>>
                    /\ warnings' = {}
                    /\ last_call' = "setParams"
       /\ (Collapsed /\ (m_K' # m_K \/ m_A0' # m_A0))
             => \/ \E v \in 1 .. Len(DegenerateVals) :
                      setParams(0, DegenerateVals[v][1], DegenerateVals[v][2])
                \/ setParams(0, ParamVals[1][1], ParamVals[1][2])]_vars

\* under collapse a setParams has just returned without a warning although
\* the stiffness in slot 0 is not positive: the call was on another type and
\* left the slot as an earlier call on type 0 had set it
C28_Witness ==
    /\ Collapsed
    /\ last_call = "setParams"
    /\ warnings = {}
    /\ Le(m_K[0], Zero)

\* a setParams on type 0 with a stiffness that is not positive has warned
C28_TypeZeroWarns ==
    Collapsed /\ last_call = "setParams" /\ warnings = {"K"} /\ Le(m_K[0], Zero)

(***************************************************************************)
(* C29: after any sequence of setTuner calls on a PythonTuner,              *)
(* getRequestedPDataFlags returns exactly the set of flags listed by the    *)
(* most recently set tuner object (none of an earlier tuner is retained),   *)
(* and update(timestep) forwards to the act method of that tuner with the   *)
(* same timestep.                                                           *)
(***************************************************************************)
\* the flags a tuner object lists, as a bitset
RECURSIVE BitsOf(_)
BitsOf(S) ==
    IF S = {} THEN 0
    ELSE LET i == CHOOSE x \in S : TRUE IN 2 ^ i + BitsOf(S \ {i})

ListedFlags(tuner) ==
    BitsOf({TunerObjects[tuner][k] : k \in 1 .. Len(TunerObjects[tuner])} \cap (0 .. 31))

\* the most recently set tuner read as the one m_tuner holds
C29_FlagsAndActOfLastTuner ==
    python_tuner # NoTuner =>
        /\ python_tuner.call = "getRequestedPDataFlags" =>
              python_tuner.requested = ListedFlags(python_tuner.m_tuner)
        /\ python_tuner.call = "update" =>
              python_tuner.acted[1] = python_tuner.m_tuner

\* the most recently set tuner read as the last one setTuner returned for
C29_FlagsAndActOfLastReturned ==
    python_tuner # NoTuner =>
        /\ python_tuner.call = "getRequestedPDataFlags" =>
              python_tuner.requested = ListedFlags(python_tuner.set_ok)
        /\ python_tuner.call = "update" =>
              python_tuner.acted[1] = python_tuner.set_ok

\* as long as the last setTuner has returned, flags and act are those of the
\* tuner it was called with
C29_HoldsIfSetTunerReturned ==
    (python_tuner # NoTuner /\ python_tuner.m_tuner = python_tuner.set_ok) =>
        /\ python_tuner.m_flags = ListedFlags(python_tuner.m_tuner)
        /\ python_tuner.call = "getRequestedPDataFlags" =>
              python_tuner.requested = ListedFlags(python_tuner.m_tuner)
        /\ python_tuner.call = "update" =>
              /\ python_tuner.acted[1] = python_tuner.m_tuner
              /\ python_tuner.acted[2] \in Timesteps

(***************************************************************************)
(* C30: CosineChannelFiller::drawParticles with fill count N_fill writes    *)
(* exactly the position, velocity and tag slots first_idx .. first_idx +    *)
(* N_fill - 1 (first_idx = N + N_virtual - N_fill) and no other slot; slot  *)
(* first_idx + i gets the tag first_tag + i, so the written tags are        *)
(* pairwise distinct and contiguous, and the first floor(N_fill / 2)        *)
(* particles are placed on the bottom wall (sign -1), the remaining ones on *)
(* the top wall (sign +1).                                                  *)
(***************************************************************************)
\* the wall at x: A cos(x p), shifted by side * H_narrow
WallAt(f, x, side) ==
    Add(Mul(f.m_Amplitude, fast_cos(Mul(x, f.m_pi_period_div_L))), Mul(R(side), f.m_H_narrow))

\* a position within the filler thickness below the bottom wall
OnBottomWall(f, p) ==
    /\ Le(p[3], WallAt(f, p[1], -1))
    /\ Le(Sub(WallAt(f, p[1], -1), f.m_thickness), p[3])

\* a position within the filler thickness above the top wall
OnTopWall(f, p) ==
    /\ Le(WallAt(f, p[1], 1), p[3])
    /\ Le(p[3], Add(WallAt(f, p[1], 1), f.m_thickness))

FilledSlots(f) == FirstIdx(f) .. (FirstIdx(f) + f.m_N_fill - 1)

DrawStep ==
    /\ mpcd' # mpcd
    /\ mpcd'.call = "fill"

C30_DrawWritesExactlyFilledSlots ==
    [][DrawStep =>
        /\ mpcd'.written.pos = FilledSlots(mpcd')
        /\ mpcd'.written.vel = FilledSlots(mpcd')
        /\ mpcd'.written.tag = FilledSlots(mpcd')
        /\ FilledSlots(mpcd') \subseteq 0 .. (Len(mpcd'.h_tag) - 1)
        /\ \A idx \in 0 .. (mpcd.N + mpcd.N_virtual - 1) :
              idx \notin FilledSlots(mpcd') =>
                  /\ mpcd'.h_pos[idx + 1] = mpcd.h_pos[idx + 1]
                  /\ mpcd'.h_vel[idx + 1] = mpcd.h_vel[idx + 1]
                  /\ mpcd'.h_tag[idx + 1] = mpcd.h_tag[idx + 1]
        /\ \A i \in 0 .. (mpcd'.m_N_fill - 1) :
              /\ mpcd'.h_tag[FirstIdx(mpcd') + i + 1] = mpcd'.m_first_tag + i
              /\ mpcd'.h_vel[FirstIdx(mpcd') + i + 1][4] = NO_CELL
              /\ IF i < mpcd'.m_N_fill \div 2
                 THEN OnBottomWall(mpcd', mpcd'.h_pos[FirstIdx(mpcd') + i + 1])
                 ELSE OnTopWall(mpcd', mpcd'.h_pos[FirstIdx(mpcd') + i + 1])
        /\ \A i, j \in FilledSlots(mpcd') :
              i # j => mpcd'.h_tag[i + 1] # mpcd'.h_tag[j + 1]]_vars

\* an odd fill behind virtual particles that were there before, drawn on both
\* walls
C30_Witness ==
    /\ mpcd # NoFiller
    /\ mpcd.call = "fill"
    /\ mpcd.m_N_fill = 3
    /\ FirstIdx(mpcd) > mpcd.N
    /\ OnBottomWall(mpcd, mpcd.h_pos[FirstIdx(mpcd) + 1])
    /\ ~OnTopWall(mpcd, mpcd.h_pos[FirstIdx(mpcd) + 1])
    /\ OnTopWall(mpcd, mpcd.h_pos[FirstIdx(mpcd) + 2])
    /\ OnTopWall(mpcd, mpcd.h_pos[FirstIdx(mpcd) + 3])

\* once a fill has returned the tags held are 0 .. N + N_virtual - 1, each once
C30_TagsDistinctAfterFill ==
    (mpcd # NoFiller /\ mpcd.call = "fill") =>
        \A k \in 1 .. Len(mpcd.h_tag) : mpcd.h_tag[k] = k - 1

====
